---- MODULE Spec2Model ----
(***************************************************************************)
(* Graphite Flux: the signaling hub (server index.js, "FLUX SIGNALING      *)
(* SERVER" section) and the Blip P2P transfer protocol                     *)
(* (DataChannelManager.swift over WebRTCService.swift).                    *)
(*                                                                         *)
(* The specifications share the module's variables:                        *)
(*   HubSpec       the hub: sockets, fluxClients, rtcSessions              *)
(*   CodeSpec      the hub's sockets and its get_connect_code handlers     *)
(*   RelaySpec     the hub's sockets, session requests and the relay of    *)
(*                 rtc_offer, rtc_answer and rtc_ice_candidate             *)
(*   FriendSpec    the hub's sockets and its add_friend handlers, over a   *)
(*                 database in which every user has a connect code         *)
(*   XferSpec      one transfer between two DataChannelManager endpoints,  *)
(*                 with frames altered in flight, cancel and write errors  *)
(*   RecvSpec      one transfer whose receiver is also sent repeated and   *)
(*                 out-of-range chunks                                     *)
(*   StartSpec     one transfer whose transport reports connected twice    *)
(*   SendFailSpec  one transfer over a transport with a channel not open   *)
(*   XferFairSpec  one undisturbed transfer, with the progress the main    *)
(*                 queue and the transport guarantee                       *)
(*   CloseSpec     one undisturbed transfer whose sender is handed the     *)
(*                 receiver's rtc_session_close                            *)
(*   ClientSpec    a BlipService client receiving session requests that    *)
(*                 its user accepts or rejects                             *)
(***************************************************************************)
EXTENDS Integers, Sequences, FiniteSets, TLC

(***************************************************************************)
(* Bounds of the hub model                                                 *)
(***************************************************************************)
MaxUsers == 2
MaxSockets == 3
MaxSessions == 2

Users == 1..MaxUsers
Sockets == 1..MaxSockets
SessionIds == 1..MaxSessions

\* token query parameter of the upgrade URL: 0 when absent, -1 when the
\* identity provider rejects it, u when it is valid for user u
Tokens == (-1..0) \cup Users

VARIABLES
    ws,             \* socket -> [readyState, pc, token, user, closeCode]
    fluxClients,    \* Map userId -> socket of the stored client record
    rtcSessions,    \* Map sessionId -> [initiatorId, responderId, state]
    hubOut,         \* frames the last hub step passed to ws.send, in order
    hubOp           \* the last hub step: which handler ran, on what

hubVars == <<ws, fluxClients, rtcSessions, hubOut, hubOp>>

VARIABLES
    mgr,        \* endpoint -> the DataChannelManager's stored properties
    chan,       \* endpoint -> channel -> frames sent by it, not yet delivered
    unsent,     \* endpoint -> channel -> how many of those are still buffered
    sentCount,  \* endpoint -> message type -> frames handed to sendData
    delegate,   \* endpoint -> terminal delegate callbacks made so far
    written,    \* endpoint -> payloads written to the temp directory
    env,        \* what the environment did: tampering, cancel, write error;
                \* which endpoints handled TRANSFER_ACK, which cancelled
    xferOp,     \* the last transfer step
    xferOut     \* <<channel, frame>> pairs the last step handed to sendData

xferVars == <<mgr, chan, unsent, sentCount, delegate, written, env,
              xferOp, xferOut>>

VARIABLES
    codeTable,  \* rows of blip_connect_codes: [user_id, code]
    codeReq,    \* request -> a get_connect_code handler: where it is, its locals
    codeReplies \* [user, code] of every connect_code frame sent so far

codeVars == <<codeTable, codeReq, codeReplies>>

VARIABLES
    friendTable, \* rows of blip_friends: <<user_id, friend_id>> -> how many
    friendReq    \* request -> an add_friend handler: where it is, its locals

friendVars == <<friendTable, friendReq>>

VARIABLES
    pendingIncomingSession, \* BlipService: the P2PSession awaiting the user
    activeSessions,         \* BlipService: sessionId -> peerId of its session
    rtcReceived,            \* rtc_session_request messages handled so far
    rtcSent                 \* signaling messages the client has sent

clientVars == <<pendingIncomingSession, activeSessions, rtcReceived, rtcSent>>

vars == <<hubVars, xferVars, codeVars, friendVars, clientVars>>

(***************************************************************************)
(* Map helpers (JavaScript Map set / delete)                               *)
(***************************************************************************)
MapSet(m, k, v) == [x \in (DOMAIN m) \cup {k} |-> IF x = k THEN v ELSE m[x]]

MapDelete(m, k) == [x \in (DOMAIN m) \ {k} |-> m[x]]

EmptyMap == [x \in {} |-> 0]

\* ascending enumeration of a finite set of integers
RECURSIVE SetToSeq(_)
SetToSeq(S) ==
    IF S = {} THEN <<>>
    ELSE LET m == CHOOSE x \in S : \A y \in S : x <= y
         IN  <<m>> \o SetToSeq(S \ {m})

(***************************************************************************)
(* Hub messages.  One record shape for every frame the hub sends:          *)
(*   to        the socket handed to send()                                 *)
(*   type      the JSON "type"                                             *)
(*   userId    userId / friendId / senderId of the frame (0: none)         *)
(*   sessionId sessionId of the frame (0: none)                            *)
(*   message   the text of an error frame ("" otherwise)                   *)
(***************************************************************************)
HubMsg(to, type, userId, sessionId, message) ==
    [to |-> to, type |-> type, userId |-> userId,
     sessionId |-> sessionId, message |-> message]

\* A socket whose handlers have all finished ("ended") is kept as NewSocket
\* with its readyState, pc and closeCode: no code reads its token or user.

\* send(ws, message): dropped unless the socket is OPEN
send(sockets, to, type, userId, sessionId, message) ==
    IF sockets[to].readyState = "OPEN"
    THEN <<HubMsg(to, type, userId, sessionId, message)>>
    ELSE <<>>

\* verifyToken(token): the user, or 0 for null
verifyTokenAny(token) == IF token \in Users THEN token ELSE 1

verifyToken(token) == IF token \in Users THEN token ELSE 0

\* notifyFriendsOfStatus(userId, isOnline): one frame per entry of clients
RECURSIVE notifyEach(_, _, _, _, _)
notifyEach(sockets, clients, ids, userId, isOnline) ==
    IF ids = <<>> THEN <<>>
    ELSE send(sockets, clients[Head(ids)],
              IF isOnline THEN "friend_online" ELSE "friend_offline",
              userId, 0, "")
         \o notifyEach(sockets, clients, Tail(ids), userId, isOnline)

notifyFriendsOfStatus(sockets, clients, userId, isOnline) ==
    notifyEach(sockets, clients, SetToSeq(DOMAIN clients), userId, isOnline)

\* the sessions the close handler's forEach deletes for user uid
SessionsOfInitiatorOnly(sessions, uid) ==
    {sid \in DOMAIN sessions : sessions[sid].initiatorId = uid}

SessionsOf(sessions, uid) ==
    {sid \in DOMAIN sessions :
        sessions[sid].initiatorId = uid \/ sessions[sid].responderId = uid}

NoOp == [type |-> "none", ws |-> 0, userId |-> 0, sessionId |-> 0,
         prior |-> 0, purged |-> {}]

HubOp(type, s, userId, sessionId, prior, purged) ==
    [type |-> type, ws |-> s, userId |-> userId, sessionId |-> sessionId,
     prior |-> prior, purged |-> purged]

NewSocket == [readyState |-> "NONE", pc |-> "idle", token |-> 0,
              user |-> 0, closeCode |-> 0]

HubInit ==
    /\ ws = [s \in Sockets |-> NewSocket]
    /\ fluxClients = EmptyMap
    /\ rtcSessions = EmptyMap
    /\ hubOut = <<>>
    /\ hubOp = NoOp

(***************************************************************************)
(* wss.on("connection"): up to the await of verifyToken                    *)
(***************************************************************************)
Upgrade(s, token) ==
    /\ UNCHANGED <<xferVars, codeVars, friendVars, clientVars>>
    /\ ws[s].pc = "idle"
    /\ \A t \in Sockets : t < s => ws[t].pc # "idle"
    /\ IF token = 0
       THEN ws' = [ws EXCEPT ![s] = [@ EXCEPT !.readyState = "CLOSED",
                                              !.pc = "ended",
                                              !.closeCode = 4001]]
       ELSE ws' = [ws EXCEPT ![s] = [@ EXCEPT !.readyState = "OPEN",
                                              !.pc = "verifying",
                                              !.token = token]]
    /\ hubOut' = <<>>
    /\ hubOp' = HubOp("upgrade", s, 0, 0, 0, {})
    /\ UNCHANGED <<fluxClients, rtcSessions>>

(***************************************************************************)
(* wss.on("connection"): after verifyToken resolved                        *)
(***************************************************************************)
Register(s) ==
    /\ UNCHANGED <<xferVars, codeVars, friendVars, clientVars>>
    /\ ws[s].pc = "verifying"
    /\ LET user == verifyToken(ws[s].token)
       IN  IF user = 0
           THEN /\ ws' = [ws EXCEPT ![s] = [NewSocket EXCEPT
                                                     !.readyState = "CLOSED",
                                                     !.pc = "ended",
                                                     !.closeCode = 4001]]
                /\ hubOut' = <<>>
                /\ hubOp' = HubOp("reject", s, 0, 0, 0, {})
                /\ UNCHANGED <<fluxClients, rtcSessions>>
           ELSE LET clients == MapSet(fluxClients, user, s)
                    sockets == [ws EXCEPT ![s] = [@ EXCEPT !.pc = "registered",
                                                           !.user = user]]
                IN  /\ fluxClients' = clients
                    /\ ws' = sockets
                    /\ hubOut' = send(sockets, s, "connected", user, 0, "")
                                 \o notifyFriendsOfStatus(sockets, clients,
                                                          user, TRUE)
                    /\ hubOp' = HubOp("register", s, user, 0,
                                      IF user \in DOMAIN fluxClients
                                      THEN fluxClients[user] ELSE 0, {})
                    /\ UNCHANGED rtcSessions

(***************************************************************************)
(* The socket closes (client close, network drop).  ws.on("close") runs    *)
(* only if the connection handler had attached it.                         *)
(***************************************************************************)
SocketClose(s) ==
    /\ UNCHANGED <<xferVars, codeVars, friendVars, clientVars>>
    /\ ws[s].readyState = "OPEN"
    /\ IF ws[s].pc = "registered"
       THEN LET user == ws[s].user
                sockets == [ws EXCEPT ![s] = [NewSocket EXCEPT
                                                       !.readyState = "CLOSED",
                                                       !.pc = "ended"]]
                clients == MapDelete(fluxClients, user)
                purged == SessionsOf(rtcSessions, user)
            IN  /\ ws' = sockets
                /\ fluxClients' = clients
                /\ hubOut' = notifyFriendsOfStatus(sockets, clients,
                                                   user, FALSE)
                /\ rtcSessions' = [sid \in (DOMAIN rtcSessions) \ purged
                                     |-> rtcSessions[sid]]
                /\ hubOp' = HubOp("close", s, user, 0,
                                  IF user \in DOMAIN fluxClients
                                  THEN fluxClients[user] ELSE 0,
                                  {[sessionId |-> sid,
                                    initiatorId |-> rtcSessions[sid].initiatorId,
                                    responderId |-> rtcSessions[sid].responderId]
                                   : sid \in purged})
       ELSE /\ ws' = [ws EXCEPT ![s] = [@ EXCEPT !.readyState = "CLOSED"]]
            /\ hubOut' = <<>>
            /\ hubOp' = HubOp("close_unhandled", s, 0, 0, 0, {})
            /\ UNCHANGED <<fluxClients, rtcSessions>>

(***************************************************************************)
(* handleFluxMessage.  A message event fires on a socket whose handlers    *)
(* are attached and that is still open; client.user.id is ws[s].user.      *)
(* The rtc_session_* cases contain no await: each is one step.             *)
(***************************************************************************)
CanReceive(s) == ws[s].pc = "registered" /\ ws[s].readyState = "OPEN"

\* the optional file hint of an rtc_session_request (fileName, fileSize,
\* fileType): absent, or the one of a two-byte file r.bin
FileHints == {<<>>, <<"r.bin", 2, "bin">>}

\* case "rtc_session_request"; fileHint is what the request carries in
\* data.fileName, data.fileSize, data.fileType, which the case never reads
RtcSessionRequestUnchecked(s, peerId, sessionId, fileHint) ==
    /\ UNCHANGED <<xferVars, codeVars, friendVars, clientVars>>
    /\ CanReceive(s)
    /\ rtcSessions' = MapSet(rtcSessions, sessionId,
                             [initiatorId |-> ws[s].user,
                              responderId |-> peerId,
                              state |-> "pending"])
    /\ hubOut' = IF peerId \in DOMAIN fluxClients
                 THEN send(ws, fluxClients[peerId], "rtc_session_request",
                           ws[s].user, sessionId, "")
                 ELSE <<>>
    /\ hubOp' = HubOp("rtc_session_request", s, ws[s].user, sessionId, 0, {})
    /\ UNCHANGED <<ws, fluxClients>>

RtcSessionRequest(s, peerId, sessionId, fileHint) ==
    /\ UNCHANGED <<xferVars, codeVars, friendVars, clientVars>>
    /\ CanReceive(s)
    /\ IF peerId \notin DOMAIN fluxClients
       THEN /\ hubOut' = send(ws, s, "error", 0, 0, "Peer not connected")
            /\ UNCHANGED rtcSessions
       ELSE /\ rtcSessions' = MapSet(rtcSessions, sessionId,
                                     [initiatorId |-> ws[s].user,
                                      responderId |-> peerId,
                                      state |-> "pending"])
            /\ hubOut' = send(ws, fluxClients[peerId], "rtc_session_request",
                              ws[s].user, sessionId, "")
    /\ hubOp' = HubOp("rtc_session_request", s, ws[s].user, sessionId, 0, {})
    /\ UNCHANGED <<ws, fluxClients>>

\* case "rtc_session_accept"
RtcSessionAccept(s, sessionId) ==
    /\ UNCHANGED <<xferVars, codeVars, friendVars, clientVars>>
    /\ CanReceive(s)
    /\ IF sessionId \notin DOMAIN rtcSessions
       THEN /\ hubOut' = send(ws, s, "error", 0, 0, "Session not found")
            /\ UNCHANGED rtcSessions
       ELSE LET acceptSession == rtcSessions[sessionId]
            IN  /\ rtcSessions' = [rtcSessions EXCEPT
                                     ![sessionId].state = "accepted"]
                /\ hubOut' =
                     IF acceptSession.initiatorId \in DOMAIN fluxClients
                     THEN send(ws, fluxClients[acceptSession.initiatorId],
                               "rtc_session_accept", ws[s].user, sessionId, "")
                     ELSE <<>>
    /\ hubOp' = HubOp("rtc_session_accept", s, ws[s].user, sessionId, 0, {})
    /\ UNCHANGED <<ws, fluxClients>>

\* case "rtc_session_reject"
RtcSessionReject(s, sessionId) ==
    /\ UNCHANGED <<xferVars, codeVars, friendVars, clientVars>>
    /\ CanReceive(s)
    /\ IF sessionId \in DOMAIN rtcSessions
       THEN LET rejectSession == rtcSessions[sessionId]
            IN  /\ hubOut' =
                     IF rejectSession.initiatorId \in DOMAIN fluxClients
                     THEN send(ws, fluxClients[rejectSession.initiatorId],
                               "rtc_session_reject", 0, sessionId, "")
                     ELSE <<>>
                /\ rtcSessions' = MapDelete(rtcSessions, sessionId)
       ELSE /\ hubOut' = <<>>
            /\ UNCHANGED rtcSessions
    /\ hubOp' = HubOp("rtc_session_reject", s, ws[s].user, sessionId, 0, {})
    /\ UNCHANGED <<ws, fluxClients>>

\* the other participant, as the ready and close cases compute it
OtherPeerId(session, userId) ==
    IF session.initiatorId = userId THEN session.responderId
                                     ELSE session.initiatorId

\* case "rtc_session_ready"
RtcSessionReady(s, sessionId) ==
    /\ UNCHANGED <<xferVars, codeVars, friendVars, clientVars>>
    /\ CanReceive(s)
    /\ IF sessionId \in DOMAIN rtcSessions
       THEN LET otherPeerId == OtherPeerId(rtcSessions[sessionId], ws[s].user)
            IN  /\ rtcSessions' = [rtcSessions EXCEPT
                                     ![sessionId].state = "connected"]
                /\ hubOut' =
                     IF otherPeerId \in DOMAIN fluxClients
                     THEN send(ws, fluxClients[otherPeerId],
                               "rtc_session_ready", ws[s].user, sessionId, "")
                     ELSE <<>>
       ELSE /\ hubOut' = <<>>
            /\ UNCHANGED rtcSessions
    /\ hubOp' = HubOp("rtc_session_ready", s, ws[s].user, sessionId, 0, {})
    /\ UNCHANGED <<ws, fluxClients>>

\* case "rtc_session_close"
RtcSessionClose(s, sessionId) ==
    /\ UNCHANGED <<xferVars, codeVars, friendVars, clientVars>>
    /\ CanReceive(s)
    /\ IF sessionId \in DOMAIN rtcSessions
       THEN LET closePeerId == OtherPeerId(rtcSessions[sessionId], ws[s].user)
            IN  /\ hubOut' =
                     IF closePeerId \in DOMAIN fluxClients
                     THEN send(ws, fluxClients[closePeerId],
                               "rtc_session_close", 0, sessionId, "")
                     ELSE <<>>
                /\ rtcSessions' = MapDelete(rtcSessions, sessionId)
       ELSE /\ hubOut' = <<>>
            /\ UNCHANGED rtcSessions
    /\ hubOp' = HubOp("rtc_session_close", s, ws[s].user, sessionId, 0, {})
    /\ UNCHANGED <<ws, fluxClients>>

\* case "ping"
Ping(s) ==
    /\ UNCHANGED <<xferVars, codeVars, friendVars, clientVars>>
    /\ CanReceive(s)
    /\ hubOut' = send(ws, s, "pong", 0, 0, "")
    /\ hubOp' = HubOp("ping", s, ws[s].user, 0, 0, {})
    /\ UNCHANGED <<ws, fluxClients, rtcSessions>>

(***************************************************************************)
(* Connect codes: generateConnectCode, getOrCreateConnectCode and the      *)
(* get_connect_code case.  Every await of a database call is a point where *)
(* other handlers run.                                                     *)
(***************************************************************************)
MaxRequests == 2
MaxDraw == 10

Requests == 1..MaxRequests

\* const chars = "ABCDEFGHJKLMNPQRSTUVWXYZ23456789"
chars == <<"A", "B", "C", "D", "E", "F", "G", "H", "J", "K", "L", "M", "N",
           "P", "Q", "R", "S", "T", "U", "V", "W", "X", "Y", "Z",
           "2", "3", "4", "5", "6", "7", "8", "9">>

codeLength == 6
maxAttempts == 10

\* generateConnectCode(); draws[i] is Math.floor(Math.random() *
\* chars.length) of iteration i
generateConnectCode(draws) == [i \in 1..codeLength |-> chars[draws[i] + 1]]

\* the outcomes of Math.random() explored: the six draws of a call are all
\* 0 or all MaxDraw
Draws == {[i \in 1..codeLength |-> k] : k \in {0, MaxDraw}}

\* .from("blip_connect_codes").select("code").eq("user_id", userId).single():
\* the code of the user's row, <<>> when there is none
SelectCode(table, userId) ==
    IF \E row \in table : row.user_id = userId
    THEN (CHOOSE row \in table : row.user_id = userId).code
    ELSE <<>>

\* .insert({ user_id, code }) returns an error: connect_codes(user_id
\* PRIMARY KEY, code UNIQUE)
InsertError(table, userId, code) ==
    \E row \in table : row.user_id = userId \/ row.code = code

NoRequest == [pc |-> "idle", ws |-> 0, user |-> 0, code |-> <<>>,
              attempts |-> 0]

CodeInit ==
    /\ codeTable = {}
    /\ codeReq = [r \in Requests |-> NoRequest]
    /\ codeReplies = {}

\* getOrCreateConnectCode returned code, after attempts failed inserts, to
\* the get_connect_code case of request r, which sends the connect_code frame
ReturnCode(r, code, attempts) ==
    LET s == codeReq[r].ws
        sent == ws[s].readyState = "OPEN"
    IN  /\ hubOut' = IF sent
                     THEN <<[to |-> s, type |-> "connect_code", code |-> code]>>
                     ELSE <<>>
        /\ codeReplies' = IF sent
                          THEN codeReplies \cup {[user |-> codeReq[r].user,
                                                  code |-> code]}
                          ELSE codeReplies
        /\ codeReq' = [codeReq EXCEPT ![r] = [@ EXCEPT !.pc = "done",
                                                       !.code = code,
                                                       !.attempts = attempts]]
        /\ hubOp' = HubOp("connect_code", s, codeReq[r].user, 0, 0, {})

\* case "get_connect_code", up to the await of the select
GetConnectCode(r, s) ==
    /\ UNCHANGED <<xferVars, friendVars, clientVars>>
    /\ CanReceive(s)
    /\ codeReq[r].pc = "idle"
    /\ \A q \in Requests : q < r => codeReq[q].pc # "idle"
    /\ codeReq' = [codeReq EXCEPT ![r] = [NoRequest EXCEPT
                                             !.pc = "select", !.ws = s,
                                             !.user = ws[s].user]]
    /\ hubOut' = <<>>
    /\ hubOp' = HubOp("get_connect_code", s, ws[s].user, 0, 0, {})
    /\ UNCHANGED <<ws, fluxClients, rtcSessions, codeTable, codeReplies>>

\* the select resolved: return the existing code, or generate the first
\* candidate and await its insert
SelectDone(r) ==
    /\ UNCHANGED <<xferVars, friendVars, clientVars>>
    /\ codeReq[r].pc = "select"
    /\ LET existing == SelectCode(codeTable, codeReq[r].user)
       IN  IF existing # <<>>
           THEN ReturnCode(r, existing, 0)
           ELSE /\ \E draws \in Draws :
                     codeReq' = [codeReq EXCEPT ![r] =
                                   [@ EXCEPT !.pc = "insert",
                                             !.code = generateConnectCode(draws)]]
                /\ hubOut' = <<>>
                /\ hubOp' = HubOp("select", codeReq[r].ws, codeReq[r].user,
                                  0, 0, {})
                /\ UNCHANGED codeReplies
    /\ UNCHANGED <<ws, fluxClients, rtcSessions, codeTable>>

\* an insert resolved: break and return on success; on error count the
\* attempt and try the next candidate, or leave the loop after maxAttempts
\* and return the last candidate
InsertDone(r) ==
    /\ UNCHANGED <<xferVars, friendVars, clientVars>>
    /\ codeReq[r].pc = "insert"
    /\ LET req == codeReq[r]
       IN  IF ~InsertError(codeTable, req.user, req.code)
           THEN /\ codeTable' = codeTable \cup {[user_id |-> req.user,
                                                  code |-> req.code]}
                /\ ReturnCode(r, req.code, req.attempts)
           ELSE IF req.attempts + 1 < maxAttempts
           THEN /\ \E draws \in Draws :
                     codeReq' = [codeReq EXCEPT ![r] =
                                   [@ EXCEPT !.attempts = @ + 1,
                                             !.code = generateConnectCode(draws)]]
                /\ hubOut' = <<>>
                /\ hubOp' = HubOp("insert", req.ws, req.user, 0, 0, {})
                /\ UNCHANGED <<codeTable, codeReplies>>
           ELSE /\ ReturnCode(r, req.code, req.attempts + 1)
                /\ UNCHANGED codeTable
    /\ UNCHANGED <<ws, fluxClients, rtcSessions>>

(***************************************************************************)
(* Relay: the rtc_offer, rtc_answer and rtc_ice_candidate cases            *)
(***************************************************************************)
RelayTypes == {"rtc_offer", "rtc_answer", "rtc_ice_candidate"}

\* the payload fields of a relayed message as the sender wrote them; a
\* field the message does not carry is <<>>
RelayData(type) ==
    IF type = "rtc_ice_candidate"
    THEN {[sdp |-> <<>>, candidate |-> <<c>>, sdpMid |-> <<"0">>,
           sdpMLineIndex |-> <<0>>] : c \in {"host", "relay"}}
    ELSE {[sdp |-> <<v>>, candidate |-> <<>>, sdpMid |-> <<>>,
           sdpMLineIndex |-> <<>>] : v \in {"v=0 a", "v=0 b"}}

\* the frame the three cases build: type, senderId, sessionId and the
\* payload fields copied from data
RelayFrameWithoutMid(to, type, senderId, sessionId, data) ==
    [to |-> to, type |-> type, userId |-> senderId, sessionId |-> sessionId,
     message |-> "", sdp |-> data.sdp, candidate |-> data.candidate,
     sdpMid |-> <<>>, sdpMLineIndex |-> data.sdpMLineIndex]

RelayFrame(to, type, senderId, sessionId, data) ==
    [to |-> to, type |-> type, userId |-> senderId, sessionId |-> sessionId,
     message |-> "", sdp |-> data.sdp, candidate |-> data.candidate,
     sdpMid |-> data.sdpMid, sdpMLineIndex |-> data.sdpMLineIndex]

\* cases "rtc_offer", "rtc_answer", "rtc_ice_candidate"
Relay(s, type, peerId, sessionId, data) ==
    /\ UNCHANGED <<xferVars, codeVars, friendVars, clientVars>>
    /\ CanReceive(s)
    /\ hubOut' = IF peerId \in DOMAIN fluxClients
                    /\ ws[fluxClients[peerId]].readyState = "OPEN"
                 THEN <<RelayFrame(fluxClients[peerId], type, ws[s].user,
                                   sessionId, data)>>
                 ELSE <<>>
    /\ hubOp' = [type |-> type, ws |-> s, userId |-> ws[s].user,
                 sessionId |-> sessionId, prior |-> 0, purged |-> {},
                 peerId |-> peerId, data |-> data]
    /\ UNCHANGED <<ws, fluxClients, rtcSessions>>

RelayNext ==
    \/ \E s \in Sockets, token \in Tokens : Upgrade(s, token)
    \/ \E s \in Sockets : Register(s)
    \/ \E s \in Sockets : SocketClose(s)
    \/ \E s \in Sockets, peerId \in Users, sessionId \in SessionIds,
          fileHint \in FileHints :
          RtcSessionRequest(s, peerId, sessionId, fileHint)
    \/ \E s \in Sockets, type \in RelayTypes, peerId \in Users,
          sessionId \in SessionIds :
          \E data \in RelayData(type) :
             Relay(s, type, peerId, sessionId, data)

(***************************************************************************)
(* Friends: the add_friend case of handleFluxMessage, and what the catch   *)
(* of handleFluxMessage does.  Every await is a point where other handlers *)
(* run.                                                                    *)
(***************************************************************************)
lowerLetters == <<"a", "b", "c", "d", "e", "f", "g", "h", "i", "j", "k", "l",
                  "m", "n", "o", "p", "q", "r", "s", "t", "u", "v", "w", "x",
                  "y", "z">>

upperLetters == <<"A", "B", "C", "D", "E", "F", "G", "H", "I", "J", "K", "L",
                  "M", "N", "O", "P", "Q", "R", "S", "T", "U", "V", "W", "X",
                  "Y", "Z">>

\* String.prototype.toUpperCase on an ASCII string (a tuple of characters)
toUpperCaseIdentity(code) == code

toUpperCase(code) ==
    [i \in DOMAIN code |->
        IF \E k \in DOMAIN lowerLetters : lowerLetters[k] = code[i]
        THEN upperLetters[CHOOSE k \in DOMAIN lowerLetters :
                             lowerLetters[k] = code[i]]
        ELSE code[i]]

\* the connect codes the table holds when the hub starts: user u was given
\* the code of six equal characters chars[(u - 1) * MaxDraw + 1] earlier
StoredCode(u) == generateConnectCode([i \in 1..codeLength |-> (u - 1) * MaxDraw])

StoredCodes == {[user_id |-> u, code |-> StoredCode(u)] : u \in Users}

\* data.code of the add_friend messages explored: absent (<<>>), user 1's
\* code typed in lower case, every other user's code as stored, and a code
\* no row holds
AddFriendCodes ==
    {<<>>, [i \in 1..codeLength |-> "a"], [i \in 1..codeLength |-> "Z"]}
    \cup {StoredCode(u) : u \in Users \ {1}}

\* .from("blip_connect_codes").select("user_id").eq("code", code).single():
\* the user_id of the row, 0 when there is none
SelectUserByCode(table, code) ==
    IF \E row \in table : row.code = code
    THEN (CHOOSE row \in table : row.code = code).user_id
    ELSE 0

\* .from("blip_friends").select("id").eq("user_id", userId)
\* .eq("friend_id", friendId).single(): data is set for exactly one row
SelectExisting(table, userId, friendId) == table[<<userId, friendId>>] = 1

\* the insert of the two rows returns an error: friendships(user_id,
\* friend_id) has a unique composite key
FriendInsertError(table, userId, friendId) ==
    table[<<userId, friendId>>] > 0 \/ table[<<friendId, userId>>] > 0

NoFriendRequest == [pc |-> "idle", ws |-> 0, user |-> 0, code |-> <<>>,
                    friendId |-> 0, inserted |-> FALSE]

FriendInit ==
    /\ friendTable = [row \in Users \X Users |-> 0]
    /\ friendReq = [r \in Requests |-> NoFriendRequest]

\* catch (error) of handleFluxMessage
catchErrorSilent(sockets, s) == <<>>

catchError(sockets, s) == send(sockets, s, "error", 0, 0, "Internal error")

\* a message that JSON.parse rejects: the catch runs
InvalidJson(s) ==
    /\ UNCHANGED <<xferVars, codeVars, friendVars, clientVars>>
    /\ CanReceive(s)
    /\ hubOut' = catchError(ws, s)
    /\ hubOp' = HubOp("invalid_json", s, ws[s].user, 0, 0, {})
    /\ UNCHANGED <<ws, fluxClients, rtcSessions>>

\* case "add_friend", up to the await of the select by code; without a code
\* field data.code.toUpperCase() throws and the catch runs
AddFriend(r, s, code) ==
    /\ UNCHANGED <<xferVars, codeVars, clientVars, friendTable>>
    /\ CanReceive(s)
    /\ friendReq[r].pc = "idle"
    /\ \A q \in Requests : q < r => friendReq[q].pc # "idle"
    /\ IF code = <<>>
       THEN /\ hubOut' = catchError(ws, s)
            /\ UNCHANGED friendReq
       ELSE /\ hubOut' = <<>>
            /\ friendReq' = [friendReq EXCEPT ![r] =
                               [NoFriendRequest EXCEPT
                                   !.pc = "code", !.ws = s, !.user = ws[s].user,
                                   !.code = toUpperCase(code)]]
    /\ hubOp' = HubOp("add_friend", s, ws[s].user, 0, 0, {})
    /\ UNCHANGED <<ws, fluxClients, rtcSessions>>

\* request r ends with an error frame to its socket
FriendError(r, message) ==
    /\ hubOut' = send(ws, friendReq[r].ws, "error", 0, 0, message)
    /\ friendReq' = [friendReq EXCEPT ![r] = [@ EXCEPT !.pc = "done"]]

\* the select by code resolved: Invalid connect code, Cannot add yourself,
\* or await the select of an existing row
CodeSelected(r) ==
    /\ UNCHANGED <<xferVars, codeVars, clientVars, friendTable>>
    /\ friendReq[r].pc = "code"
    /\ LET req == friendReq[r]
           friendId == SelectUserByCode(codeTable, req.code)
       IN  /\ IF friendId = 0
              THEN FriendError(r, "Invalid connect code")
              ELSE IF friendId = req.user
              THEN FriendError(r, "Cannot add yourself")
              ELSE /\ hubOut' = <<>>
                   /\ friendReq' = [friendReq EXCEPT ![r] =
                                      [@ EXCEPT !.pc = "existing",
                                                !.friendId = friendId]]
           /\ hubOp' = HubOp("code_selected", req.ws, req.user, 0, 0, {})
    /\ UNCHANGED <<ws, fluxClients, rtcSessions>>

\* the select of an existing row resolved: Already friends, or await the
\* insert
ExistingSelected(r) ==
    /\ UNCHANGED <<xferVars, codeVars, clientVars, friendTable>>
    /\ friendReq[r].pc = "existing"
    /\ LET req == friendReq[r]
       IN  /\ IF SelectExisting(friendTable, req.user, req.friendId)
              THEN FriendError(r, "Already friends")
              ELSE /\ hubOut' = <<>>
                   /\ friendReq' = [friendReq EXCEPT ![r] =
                                      [@ EXCEPT !.pc = "insert"]]
           /\ hubOp' = HubOp("existing_selected", req.ws, req.user, 0, 0, {})
    /\ UNCHANGED <<ws, fluxClients, rtcSessions>>

\* the insert resolved; its result is not read.  inserted records whether
\* the rows were written.  Then await getUserById
FriendsInserted(r) ==
    /\ UNCHANGED <<xferVars, codeVars, clientVars>>
    /\ friendReq[r].pc = "insert"
    /\ LET req == friendReq[r]
           error == FriendInsertError(friendTable, req.user, req.friendId)
       IN  /\ friendTable' =
                 IF error THEN friendTable
                 ELSE [friendTable EXCEPT ![<<req.user, req.friendId>>] = @ + 1,
                                          ![<<req.friendId, req.user>>] = @ + 1]
           /\ friendReq' = [friendReq EXCEPT ![r] =
                              [@ EXCEPT !.pc = "user", !.inserted = ~error]]
           /\ hubOut' = <<>>
           /\ hubOp' = HubOp("friends_inserted", req.ws, req.user, 0, 0, {})
    /\ UNCHANGED <<ws, fluxClients, rtcSessions>>

\* getUserById resolved: friend_added to the requester and, if the friend
\* is in fluxClients, to the friend's stored socket
FriendAdded(r) ==
    /\ UNCHANGED <<xferVars, codeVars, clientVars, friendTable>>
    /\ friendReq[r].pc = "user"
    /\ LET req == friendReq[r]
       IN  /\ hubOut' = send(ws, req.ws, "friend_added", req.friendId, 0, "")
                        \o (IF req.friendId \in DOMAIN fluxClients
                            THEN send(ws, fluxClients[req.friendId],
                                      "friend_added", req.user, 0, "")
                            ELSE <<>>)
           /\ friendReq' = [friendReq EXCEPT ![r] = [@ EXCEPT !.pc = "done"]]
           /\ hubOp' = HubOp("friend_added", req.ws, req.user, 0, 0, {})
    /\ UNCHANGED <<ws, fluxClients, rtcSessions>>

FriendNext ==
    \/ \E s \in Sockets, token \in Tokens : Upgrade(s, token)
    \/ \E s \in Sockets : Register(s)
    \/ \E s \in Sockets : SocketClose(s)
    \/ \E r \in Requests, s \in Sockets, code \in AddFriendCodes :
          AddFriend(r, s, code)
    \/ \E r \in Requests : CodeSelected(r)
    \/ \E r \in Requests : ExistingSelected(r)
    \/ \E r \in Requests : FriendsInserted(r)
    \/ \E r \in Requests : FriendAdded(r)

CodeNext ==
    \/ \E s \in Sockets, token \in Tokens : Upgrade(s, token)
    \/ \E s \in Sockets : Register(s)
    \/ \E s \in Sockets : SocketClose(s)
    \/ \E r \in Requests, s \in Sockets : GetConnectCode(r, s)
    \/ \E r \in Requests : SelectDone(r)
    \/ \E r \in Requests : InsertDone(r)

HubNext ==
    \/ \E s \in Sockets, token \in Tokens : Upgrade(s, token)
    \/ \E s \in Sockets : Register(s)
    \/ \E s \in Sockets : SocketClose(s)
    \/ \E s \in Sockets, peerId \in Users, sessionId \in SessionIds,
          fileHint \in FileHints :
          RtcSessionRequest(s, peerId, sessionId, fileHint)
    \/ \E s \in Sockets, sessionId \in SessionIds : RtcSessionAccept(s, sessionId)
    \/ \E s \in Sockets, sessionId \in SessionIds : RtcSessionReject(s, sessionId)
    \/ \E s \in Sockets, sessionId \in SessionIds : RtcSessionReady(s, sessionId)
    \/ \E s \in Sockets, sessionId \in SessionIds : RtcSessionClose(s, sessionId)
    \/ \E s \in Sockets : Ping(s)
    \/ \E s \in Sockets : InvalidJson(s)
    \/ \E r \in Requests, s \in Sockets : AddFriend(r, s, <<>>)



(***************************************************************************)
(* Hub claims                                                              *)
(***************************************************************************)

\* C1: for every session in rtcSessions, both its initiator and its
\* responder are keys of fluxClients, in every reachable hub state.
C1_SessionReferentialIntegrity ==
    \A sid \in DOMAIN rtcSessions :
        /\ rtcSessions[sid].initiatorId \in DOMAIN fluxClients
        /\ rtcSessions[sid].responderId \in DOMAIN fluxClients

\* C2: right after the close handler of a socket of user u has run, no
\* session with u as initiator or responder is left in rtcSessions.
C2_ClosePurgesSessions ==
    hubOp.type = "close" =>
        \A sid \in DOMAIN rtcSessions :
            /\ rtcSessions[sid].initiatorId # hubOp.userId
            /\ rtcSessions[sid].responderId # hubOp.userId

\* C2 witness: a close handler that purged a session in which the closing
\* user was the responder of another user's request.
C2_Witness ==
    /\ hubOp.type = "close"
    /\ \E p \in hubOp.purged : /\ p.responderId = hubOp.userId
                               /\ p.initiatorId # hubOp.userId

\* C3: when the close handler purges a session whose other participant is
\* still registered on an open socket, it sends that participant an
\* rtc_session_close frame for the session id.
C3_CloseNotifiesSurvivor ==
    hubOp.type = "close" =>
        \A p \in hubOp.purged :
            LET other == IF p.initiatorId = hubOp.userId
                         THEN p.responderId ELSE p.initiatorId
            IN  (/\ other # hubOp.userId
                 /\ other \in DOMAIN fluxClients
                 /\ ws[fluxClients[other]].readyState = "OPEN")
                => \E i \in DOMAIN hubOut :
                      /\ hubOut[i].type = "rtc_session_close"
                      /\ hubOut[i].to = fluxClients[other]
                      /\ hubOut[i].sessionId = p.sessionId

\* C4: a register that replaces a stored connection has closed the earlier
\* socket with code 1001, and at every instant at most one open socket with
\* attached handlers exists per user id.
C4_SupersededSocketClosed ==
    /\ (hubOp.type = "register" /\ hubOp.prior # 0 /\ hubOp.prior # hubOp.ws)
          => /\ ws[hubOp.prior].readyState = "CLOSED"
             /\ ws[hubOp.prior].closeCode = 1001
    /\ \A u \in Users :
          Cardinality({s \in Sockets : /\ ws[s].pc = "registered"
                                       /\ ws[s].readyState = "OPEN"
                                       /\ ws[s].user = u}) <= 1

\* C5: the close handler of a socket that is not the one stored in
\* fluxClients for its user changes nothing: the user stays registered with
\* the stored socket, no friend_offline is sent for the user and no session
\* is purged.
C5_StaleCloseIsNoOp ==
    (hubOp.type = "close" /\ hubOp.prior # 0 /\ hubOp.prior # hubOp.ws) =>
        /\ hubOp.userId \in DOMAIN fluxClients
        /\ fluxClients[hubOp.userId] = hubOp.prior
        /\ \A i \in DOMAIN hubOut :
              ~(hubOut[i].type = "friend_offline"
                /\ hubOut[i].userId = hubOp.userId)
        /\ hubOp.purged = {}

\* C14: rtc_session_accept changes a session only if it is pending and
\* rtc_session_ready only if it is accepted; an accept or ready that does
\* not match the session's state, or names no session, leaves rtcSessions
\* unchanged and an error frame is sent to the socket it came from.
C14_SessionStateOrder ==
    [][\A sid \in SessionIds :
          /\ (/\ hubOp'.type = "rtc_session_accept"
              /\ hubOp'.sessionId = sid
              /\ ~(/\ sid \in DOMAIN rtcSessions
                   /\ rtcSessions[sid].state = "pending"))
             => /\ rtcSessions' = rtcSessions
                /\ \E i \in DOMAIN hubOut' : /\ hubOut'[i].to = hubOp'.ws
                                              /\ hubOut'[i].type = "error"
          /\ (/\ hubOp'.type = "rtc_session_ready"
              /\ hubOp'.sessionId = sid
              /\ ~(/\ sid \in DOMAIN rtcSessions
                   /\ rtcSessions[sid].state = "accepted"))
             => /\ rtcSessions' = rtcSessions
                /\ \E i \in DOMAIN hubOut' : /\ hubOut'[i].to = hubOp'.ws
                                              /\ hubOut'[i].type = "error"]_vars

\* C15: an rtc_session_request whose peerId is no key of fluxClients leaves
\* rtcSessions unchanged and sends exactly one frame: the error
\* "Peer not connected" to the requesting socket.
C15_PeerNotConnected ==
    [][hubOp'.type = "rtc_session_request" =>
          \A peerId \in Users \ DOMAIN fluxClients, fileHint \in FileHints :
             RtcSessionRequest(hubOp'.ws, peerId, hubOp'.sessionId, fileHint)
             => /\ rtcSessions' = rtcSessions
                /\ hubOut' = <<HubMsg(hubOp'.ws, "error", 0, 0,
                                      "Peer not connected")>>]_vars

\* C15 witness: a request for a peer that is not registered was answered
\* with the error and created no session.
C15_Witness ==
    /\ hubOp.type = "rtc_session_request"
    /\ hubOut = <<HubMsg(hubOp.ws, "error", 0, 0, "Peer not connected")>>
    /\ hubOp.sessionId \notin DOMAIN rtcSessions

\* C16: an rtc_session_request that carries a file hint and whose peer is
\* registered is forwarded to the peer's socket with the sender's id, the
\* session id and the same file hint, and the session stored under the id
\* records the hint.
C16_FileHintForwarded ==
    [][hubOp'.type = "rtc_session_request" =>
          \A peerId \in DOMAIN fluxClients, fileHint \in FileHints \ {<<>>} :
             RtcSessionRequest(hubOp'.ws, peerId, hubOp'.sessionId, fileHint)
             => /\ \E i \in DOMAIN hubOut' :
                      /\ hubOut'[i].to = fluxClients[peerId]
                      /\ hubOut'[i].type = "rtc_session_request"
                      /\ hubOut'[i].userId = hubOp'.userId
                      /\ hubOut'[i].sessionId = hubOp'.sessionId
                      /\ "fileHint" \in DOMAIN hubOut'[i]
                      /\ hubOut'[i].fileHint = fileHint
                /\ "fileHint" \in DOMAIN rtcSessions'[hubOp'.sessionId]
                /\ rtcSessions'[hubOp'.sessionId].fileHint = fileHint]_vars

\* user u is online: one of its sockets is open with its handlers attached
Online(u) == \E s \in Sockets : CanReceive(s) /\ ws[s].user = u

\* C17: an rtc_session_reject or rtc_session_close for a session id in
\* rtcSessions removes the session; the reject is sent to an open socket of
\* the initiator if the initiator is online, the close to an open socket of
\* the participant other than the sending participant if that one is
\* online.
C17_RejectCloseDelete ==
    [][\A sid \in DOMAIN rtcSessions :
          LET session == rtcSessions[sid]
              sender == hubOp'.userId
              participants == {session.initiatorId, session.responderId}
          IN  /\ (hubOp'.type = "rtc_session_reject" /\ hubOp'.sessionId = sid)
                 => /\ sid \notin DOMAIN rtcSessions'
                    /\ Online(session.initiatorId) =>
                          \E i \in DOMAIN hubOut' :
                             /\ hubOut'[i].type = "rtc_session_reject"
                             /\ hubOut'[i].sessionId = sid
                             /\ ws[hubOut'[i].to].user = session.initiatorId
              /\ (hubOp'.type = "rtc_session_close" /\ hubOp'.sessionId = sid)
                 => /\ sid \notin DOMAIN rtcSessions'
                    /\ \A other \in participants \ {sender} :
                          (sender \in participants /\ Online(other)) =>
                             \E i \in DOMAIN hubOut' :
                                /\ hubOut'[i].type = "rtc_session_close"
                                /\ hubOut'[i].sessionId = sid
                                /\ ws[hubOut'[i].to].user = other]_vars

\* C18: all connect_code frames sent for one user carry the same code, and
\* that code is the one of the user's row in blip_connect_codes, also when
\* two get_connect_code handlers of the user run concurrently before any
\* row exists.
C18_ConnectCodeStable ==
    /\ \A a, b \in codeReplies : a.user = b.user => a.code = b.code
    /\ \A a \in codeReplies : \A row \in codeTable :
          row.user_id = a.user => row.code = a.code

\* C19: a code that getOrCreateConnectCode returned, and every code sent in
\* a connect_code frame, is the code of a row inserted for that user; after
\* maxAttempts failed inserts no code is returned.
C19_ReturnedCodeIsPersisted ==
    /\ \A r \in Requests :
          codeReq[r].pc = "done" =>
              /\ codeReq[r].attempts < maxAttempts
              /\ [user_id |-> codeReq[r].user, code |-> codeReq[r].code]
                    \in codeTable
    /\ \A a \in codeReplies :
          [user_id |-> a.user, code |-> a.code] \in codeTable

\* C20: every code generateConnectCode produced has length 6 and only
\* characters of A-H, J, K, M, N, P-Z and 2-9.
C20_CodeAlphabet ==
    \A r \in Requests :
        codeReq[r].code # <<>> =>
            /\ Len(codeReq[r].code) = 6
            /\ \A i \in DOMAIN codeReq[r].code :
                  codeReq[r].code[i] \in
                      {"A", "B", "C", "D", "E", "F", "G", "H", "J", "K", "M",
                       "N", "P", "Q", "R", "S", "T", "U", "V", "W", "X", "Y",
                       "Z", "2", "3", "4", "5", "6", "7", "8", "9"}

\* C21: the friendship table is symmetric ((a,b) present iff (b,a)
\* present), holds no row (a,a) and no row more than once, and whenever an
\* add_friend handler sends friend_added (two users adding each other
\* concurrently included) the insert of its two rows had succeeded.
C21_FriendshipsSymmetric ==
    /\ [](\A a \in Users, b \in Users :
            /\ (friendTable[<<a, b>>] > 0) <=> (friendTable[<<b, a>>] > 0)
            /\ friendTable[<<a, a>>] = 0
            /\ friendTable[<<a, b>>] <= 1)
    /\ [][\A r \in Requests :
            (/\ friendReq[r].pc = "user"
             /\ friendReq'[r].pc = "done"
             /\ \E i \in DOMAIN hubOut' : hubOut'[i].type = "friend_added")
            => friendReq[r].inserted]_vars

\* C23: a socket whose upgrade carries no token, or a token the identity
\* provider rejects, is closed with code 4001, is never stored in
\* fluxClients, is sent no frame (no connected), causes no presence
\* broadcast, and no message of it is dispatched.
C23_UnauthenticatedSocketRejected ==
    /\ [](\A s \in Sockets :
            (\/ ws[s].closeCode = 4001
             \/ ws[s].pc = "verifying" /\ ws[s].token \notin Users) =>
               /\ ws[s].pc # "registered"
               /\ \A u \in DOMAIN fluxClients : fluxClients[u] # s
               /\ \A i \in DOMAIN hubOut : hubOut[i].to # s
               /\ hubOp.ws = s =>
                     /\ hubOp.type \in {"upgrade", "reject", "close_unhandled"}
                     /\ hubOut = <<>>)
    /\ [][\A s \in Sockets :
            /\ (/\ ws[s].pc = "verifying"
                /\ ws[s].token \notin Users
                /\ ws'[s].pc # "verifying") =>
                  /\ ws'[s].closeCode = 4001
                  /\ ws'[s].readyState = "CLOSED"
                  /\ fluxClients' = fluxClients
                  /\ hubOut' = <<>>
            /\ (/\ ws[s].pc = "idle"
                /\ ws'[s].pc # "idle"
                /\ ws'[s].pc # "verifying") =>
                  /\ ws'[s].closeCode = 4001
                  /\ ws'[s].readyState = "CLOSED"
                  /\ fluxClients' = fluxClients
                  /\ hubOut' = <<>>]_vars

\* a socket was just rejected with 4001 while another user is registered
C23_Witness ==
    /\ hubOp.type = "reject"
    /\ ws[hubOp.ws].closeCode = 4001
    /\ \E u \in DOMAIN fluxClients : ws[fluxClients[u]].readyState = "OPEN"

\* C24: a message that is not valid JSON, or an add_friend without a code
\* field (its handling throws), makes the hub send exactly {type: error,
\* message: "Internal error"} to the sender, whose socket stays open and
\* registered; fluxClients and rtcSessions are unchanged.
C24_InternalErrorReply ==
    [][(\/ hubOp'.type = "invalid_json"
        \/ hubOp'.type = "add_friend" /\ friendReq' = friendReq) =>
          LET s == hubOp'.ws
          IN  /\ hubOut' = <<HubMsg(s, "error", 0, 0, "Internal error")>>
              /\ ws' = ws
              /\ ws'[s].readyState = "OPEN"
              /\ ws'[s].pc = "registered"
              /\ fluxClients' = fluxClients
              /\ rtcSessions' = rtcSessions]_vars

\* an add_friend without a code was answered while a session exists
C24_Witness ==
    /\ hubOp.type = "add_friend"
    /\ \E i \in DOMAIN hubOut : hubOut[i].message = "Internal error"
    /\ rtcSessions # EmptyMap

\* a message that is not JSON was answered while a session exists
C24_InvalidJsonReached ==
    /\ hubOp.type = "invalid_json"
    /\ \E i \in DOMAIN hubOut : hubOut[i].message = "Internal error"
    /\ rtcSessions # EmptyMap

\* user u has a registered socket that is open
HasOpenSocket(sockets, u) ==
    \E s \in Sockets : /\ sockets[s].user = u
                       /\ sockets[s].pc = "registered"
                       /\ sockets[s].readyState = "OPEN"

\* C25: a register of u sends friend_online with friendId u, and an
\* unregister of u friend_offline with friendId u, to every other user stored
\* in fluxClients at that moment; friend_online for u is sent only while u
\* has an open socket, and the step that closes u's last open socket sends
\* friend_offline for u to every other user who has an open socket, so
\* that friend_offline is the latest presence message about u they hold.
C25_PresenceBroadcast ==
    [][/\ hubOp'.type \in {"register", "close"} =>
            \A p \in (DOMAIN fluxClients') \ {hubOp'.userId} :
                \E i \in DOMAIN hubOut' :
                    hubOut'[i] = HubMsg(fluxClients'[p],
                                        IF hubOp'.type = "register"
                                        THEN "friend_online"
                                        ELSE "friend_offline",
                                        hubOp'.userId, 0, "")
       /\ \A u \in Users :
             /\ (\E i \in DOMAIN hubOut' :
                    /\ hubOut'[i].type = "friend_online"
                    /\ hubOut'[i].userId = u) => HasOpenSocket(ws', u)
             /\ (HasOpenSocket(ws, u) /\ ~HasOpenSocket(ws', u)) =>
                   \A p \in Users \ {u} :
                       (HasOpenSocket(ws, p) /\ HasOpenSocket(ws', p)) =>
                          \E i \in DOMAIN hubOut' :
                             /\ hubOut'[i].type = "friend_offline"
                             /\ hubOut'[i].userId = u
                             /\ ws[hubOut'[i].to].user = p]_vars

\* C26: messages of one socket are processed in arrival order: of two
\* get_connect_code messages of the same socket (request 1 arrived before
\* request 2) the later one performs no database write and sends no reply
\* before the earlier one has sent its reply.
C26_ArrivalOrder ==
    \A r1 \in Requests, r2 \in Requests :
        (/\ r1 < r2
         /\ codeReq[r1].pc # "idle"
         /\ codeReq[r2].pc # "idle"
         /\ codeReq[r1].ws = codeReq[r2].ws
         /\ codeReq[r2].pc = "done")
        => codeReq[r1].pc = "done"

C34_ExistingSessionKept ==
    [][(/\ hubOp'.type = "rtc_session_request"
        /\ hubOp'.sessionId \in DOMAIN rtcSessions)
       => rtcSessions'[hubOp'.sessionId] = rtcSessions[hubOp'.sessionId]]_vars

\* C35: rtc_session_accept, rtc_session_reject, rtc_session_ready and
\* rtc_session_close for a stored session, sent by a user who is neither
\* its initiator nor its responder, leave rtcSessions unchanged and send
\* nothing; and an rtc_session_accept sent by anyone but the responder
\* leaves rtcSessions unchanged.
C35_OnlyParticipantsMutate ==
    [][(/\ hubOp'.type \in {"rtc_session_accept", "rtc_session_reject",
                            "rtc_session_ready", "rtc_session_close"}
        /\ hubOp'.sessionId \in DOMAIN rtcSessions) =>
          LET session == rtcSessions[hubOp'.sessionId]
              sender == hubOp'.userId
          IN  /\ sender \notin {session.initiatorId, session.responderId} =>
                    /\ rtcSessions' = rtcSessions
                    /\ hubOut' = <<>>
              /\ (/\ hubOp'.type = "rtc_session_accept"
                  /\ sender # session.responderId) =>
                    rtcSessions' = rtcSessions]_vars

\* C36: every socket stored in fluxClients is open, or is one whose close
\* handler has not run yet; in particular a socket that closed while its
\* token was being verified is not stored once verification completes.
C36_RegistryHoldsLiveSockets ==
    \A u \in DOMAIN fluxClients :
        ws[fluxClients[u]].readyState = "OPEN"

\* the users whose stored connect code equals code up to letter case
UsersWithCode(code) ==
    {row.user_id : row \in
        {row \in codeTable :
            \A i \in 1..codeLength :
                \/ row.code[i] = code[i]
                \/ \E k \in DOMAIN lowerLetters :
                      /\ {row.code[i], code[i]} =
                            {lowerLetters[k], upperLetters[k]}}}

\* the step ended request r with exactly the error frame message to its
\* socket (nothing when that socket has closed), changed no row and sent
\* no friend_added
EndsWithError(r, message) ==
    /\ friendReq'[r].pc = "done"
    /\ friendTable' = friendTable
    /\ hubOut' = IF ws[friendReq[r].ws].readyState = "OPEN"
                 THEN <<HubMsg(friendReq[r].ws, "error", 0, 0, message)>>
                 ELSE <<>>

\* C22: an add_friend that fails validation leaves the friendship table
\* unchanged and sends friend_added to nobody: a code no user holds yields
\* the error "Invalid connect code", the requester's own code "Cannot add
\* yourself", the code of a user who is already a friend "Already friends";
\* the code is matched without regard to letter case.
C22_AddFriendValidation ==
    [][\A r \in Requests :
         LET req == friendReq[r]
             holders == UsersWithCode(req.code)
         IN  /\ (req.pc = "code" /\ friendReq'[r].pc # "code") =>
                   /\ holders = {} => EndsWithError(r, "Invalid connect code")
                   /\ holders = {req.user} =>
                         EndsWithError(r, "Cannot add yourself")
                   /\ (holders # {} /\ holders # {req.user}) =>
                         /\ friendReq'[r].pc = "existing"
                         /\ friendReq'[r].friendId \in holders
             /\ (/\ req.pc = "existing"
                 /\ friendReq'[r].pc # "existing"
                 /\ friendTable[<<req.user, req.friendId>>] > 0) =>
                   EndsWithError(r, "Already friends")]_vars

\* user 1 sent its own code in lower case and was told "Cannot add
\* yourself"
C22_Witness ==
    /\ hubOp.type = "code_selected"
    /\ hubOp.userId = 1
    /\ \E i \in DOMAIN hubOut : hubOut[i].message = "Cannot add yourself"

\* a request for a user who is already a friend was told "Already friends"
C22_AlreadyFriendsReached ==
    /\ hubOp.type = "existing_selected"
    /\ \E i \in DOMAIN hubOut : hubOut[i].message = "Already friends"

(***************************************************************************)
(* The transfer protocol: two DataChannelManager endpoints over the data   *)
(* channels of one WebRTCService pair.                                     *)
(*                                                                         *)
(* Byte counts are scaled down so that the states can be enumerated:       *)
(* chunkSize is 1 byte (64 KiB in WebRTCConfig), bufferHighWatermark 3     *)
(* and bufferLowWatermark 1 buffered bytes (16 MiB and 4 MiB).  The order  *)
(* low < high is kept; the source needs 257 buffered chunks to pause, the  *)
(* model 4.  A frame counts towards bufferedAmount with its chunk payload  *)
(* only: the 5 header bytes and the control frames are small against a     *)
(* watermark and count as 0.                                               *)
(***************************************************************************)
chunkSize == 1
bufferHighWatermark == 3
bufferLowWatermark == 1
MaxFileSize == 5
MaxTamper == 2
MaxInject == 1
MaxConnected == 2
MaxNotOpen == 1

parallelChannels == 4

\* TransferMessageType raw values
fileMetadata == 1
fileChunk == 2
fileComplete == 3
transferAck == 4
transferSuccess == 5
transferFailed == 6
transferCancel == 7

MessageTypes == fileMetadata..transferCancel
Channels == 0..(parallelChannels - 1)
Endpoints == {"initiator", "responder"}
TransferIds == {1}

Peer(e) == IF e = "initiator" THEN "responder" ELSE "initiator"

\* Swift optionals: nil is <<>>, a value x is <<x>>
None == <<>>
Some(x) == <<x>>

\* the file read by sendFile: n bytes, byte i holding i, so that every
\* reordering, loss or alteration of a chunk changes the reassembled bytes
SourceFile(n) == [i \in 1..n |-> i]

\* SHA256.hash(data) as lowercase hex: modelled as an injective, never
\* empty encoding of the bytes (collision freedom)
SHA256(data) == <<0>> \o data

\* Int(ceil(Double(data.count) / Double(WebRTCConfig.chunkSize)))
TotalChunksAtLeastOne(count) == count \div chunkSize + 1

TotalChunks(count) == (count + chunkSize - 1) \div chunkSize

Min(a, b) == IF a < b THEN a ELSE b

NoReason == <<"", 0>>

Frame(type, index, data, metadata, checksum, transferId, reason) ==
    [type |-> type, index |-> index, data |-> data, metadata |-> metadata,
     checksum |-> checksum, transferId |-> transferId, reason |-> reason]


\* cleanup(), and the state after init
IdleManager ==
    [sendingTransferId |-> None, sendingFileData |-> None,
     sendingMetadata |-> None, sendingChunkIndex |-> 0,
     sendingPaused |-> FALSE,
     receivingTransferId |-> None, receivingMetadata |-> None,
     receivingChunks |-> EmptyMap, receivingBytesReceived |-> 0,
     scheduled |-> 0]

\* cleanup() leaves a pump already scheduled with asyncAfter in the queue
cleanupReceivingOnly(m) ==
    [m EXCEPT !.receivingTransferId = None, !.receivingMetadata = None,
              !.receivingChunks = EmptyMap, !.receivingBytesReceived = 0]

cleanup(m) == [IdleManager EXCEPT !.scheduled = m.scheduled]

\* the last step: the method that ran, on which endpoint, the frame it
\* handled, the manager before it, the callbacks it made, the files it wrote
XferOp(type, e, frame, pre) ==
    [type |-> type, e |-> e, frame |-> frame, pre |-> pre,
     events |-> {}, files |-> {}]

NoXferOp == XferOp("none", "initiator", None, IdleManager)

XferInit ==
    /\ mgr = [e \in Endpoints |-> IdleManager]
    /\ chan = [e \in Endpoints |-> [c \in Channels |-> <<>>]]
    /\ unsent = [e \in Endpoints |-> [c \in Channels |-> 0]]
    /\ sentCount = [e \in Endpoints |-> [t \in MessageTypes |-> 0]]
    /\ delegate = [e \in Endpoints |-> {}]
    /\ written = [e \in Endpoints |-> {}]
    /\ env = [started |-> FALSE, fileSize |-> 0, tampered |-> 0, tamperedChunk |-> FALSE,
              tamperedComplete |-> FALSE, cancelled |-> FALSE,
              writeFailed |-> FALSE, acked |-> {}, cancelledAt |-> {},
              injected |-> 0, connected |-> 0,
              notOpen |-> {}, closed |-> {}]
    /\ xferOp = NoXferOp
    /\ xferOut = <<>>

(***************************************************************************)
(* WebRTCService: sendData, sendDataRoundRobin, buffered amounts           *)
(***************************************************************************)
\* buffered units of one frame
BufferedUnits(frame) == IF frame.type = fileChunk THEN Len(frame.data) ELSE 0

RECURSIVE SumUnits(_, _)
SumUnits(frames, k) ==
    \* units of the last k frames of the sequence
    IF k = 0 THEN 0
    ELSE BufferedUnits(frames[Len(frames)])
         + SumUnits(SubSeq(frames, 1, Len(frames) - 1), k - 1)

\* bufferedAmount(forChannel:)
bufferedAmount(e, c) == SumUnits(chan[e][c], unsent[e][c])

RECURSIVE SumChannels(_, _)
SumChannels(e, c) ==
    IF c < 0 THEN 0 ELSE bufferedAmount(e, c) + SumChannels(e, c - 1)

\* totalBufferedAmount()
totalBufferedAmount(e) == SumChannels(e, parallelChannels - 1)

\* shouldPauseSending()
shouldPauseSendingLate(e) == totalBufferedAmount(e) > bufferHighWatermark + 1

shouldPauseSending(e) == totalBufferedAmount(e) > bufferHighWatermark

\* canResumeSending()
canResumeSending(e) == totalBufferedAmount(e) < bufferLowWatermark

\* sendDataRoundRobin: the channel of chunk index
RoundRobinChannelZero(index) == 0

RoundRobinChannel(index) == index % parallelChannels

\* the effect of a sequence out of <<channel, frame>> sends by endpoint e
RECURSIVE Enqueue(_, _)
Enqueue(q, out) ==
    IF out = <<>> THEN q
    ELSE Enqueue([q EXCEPT ![Head(out)[1]] = Append(@, Head(out)[2])],
                 Tail(out))

CountSent(out, c) == Cardinality({i \in DOMAIN out : out[i][1] = c})

CountType(out, t) == Cardinality({i \in DOMAIN out : out[i][2].type = t})

(***************************************************************************)
(* DataChannelManager.  Every method is an operator from the manager's     *)
(* properties m to a Result: the properties afterwards, the frames handed  *)
(* to sendData, the delegate callbacks made and the files written.         *)
(***************************************************************************)
Result(m, out, events, files) ==
    [m |-> m, out |-> out, events |-> events, files |-> files]

Event(kind, transferId, reason) ==
    [kind |-> kind, transferId |-> transferId, reason |-> reason]

MetadataFrame(metadata) ==
    Frame(fileMetadata, 0, <<>>, Some(metadata), <<>>, 0, NoReason)

ChunkFrame(index, data) ==
    Frame(fileChunk, index, data, None, <<>>, 0, NoReason)

CompleteFrame(checksum) ==
    Frame(fileComplete, 0, <<>>, None, checksum, 0, NoReason)

ControlFrame(type, transferId) ==
    Frame(type, 0, <<>>, None, <<>>, transferId, NoReason)

FailedFrame(reason) ==
    Frame(transferFailed, 0, <<>>, None, <<>>, 0, reason)

\* sendFile(transferId:fileURL:) on a file of count bytes, with sendMetadata
sendFileAndFirstChunk(m, transferId, count) ==
    LET data == SourceFile(count)
        metadata == [transferId |-> transferId, fileSize |-> count,
                     totalChunks |-> TotalChunks(count),
                     checksum |-> SHA256(data)]
    IN  Result([m EXCEPT !.sendingTransferId = Some(transferId),
                         !.sendingFileData = Some(data),
                         !.sendingMetadata = Some(metadata),
                         !.sendingChunkIndex = IF count = 0 THEN 0 ELSE 1,
                         !.sendingPaused = FALSE],
               << <<0, MetadataFrame(metadata)>> >>
               \o (IF count = 0 THEN <<>>
                   ELSE << <<0, ChunkFrame(0, SubSeq(data, 1,
                                                    Min(chunkSize, count)))>> >>),
               {}, {})

sendFile(m, transferId, count) ==
    LET data == SourceFile(count)
        metadata == [transferId |-> transferId, fileSize |-> count,
                     totalChunks |-> TotalChunks(count),
                     checksum |-> SHA256(data)]
    IN  Result([m EXCEPT !.sendingTransferId = Some(transferId),
                         !.sendingFileData = Some(data),
                         !.sendingMetadata = Some(metadata),
                         !.sendingChunkIndex = 0,
                         !.sendingPaused = FALSE],
               << <<0, MetadataFrame(metadata)>> >>, {}, {})

\* fileData.subdata(in: start..<end) of chunk index
ChunkDataFromStart(fileData, index) ==
    SubSeq(fileData, 1, Min(chunkSize, Len(fileData)))

ChunkData(fileData, index) ==
    SubSeq(fileData, index * chunkSize + 1,
           Min(index * chunkSize + chunkSize, Len(fileData)))

\* sendCompleteMessage()
sendCompleteMessage(m) ==
    IF m.sendingMetadata = None THEN <<>>
    ELSE << <<0, CompleteFrame(m.sendingMetadata[1].checksum)>> >>

\* sendNextChunks(); pause is shouldPauseSending() at the time of the call
sendNextChunks(m, pause) ==
    IF m.sendingFileData = None \/ m.sendingMetadata = None \/ m.sendingPaused
    THEN Result(m, <<>>, {}, {})
    ELSE IF pause
    THEN Result([m EXCEPT !.sendingPaused = TRUE], <<>>, {}, {})
    ELSE LET fileData == m.sendingFileData[1]
             metadata == m.sendingMetadata[1]
             first == m.sendingChunkIndex
             chunksToSend == Min(parallelChannels, metadata.totalChunks - first)
             chunks == [j \in 1..chunksToSend |->
                          <<RoundRobinChannel(first + j - 1),
                            ChunkFrame(first + j - 1,
                                       ChunkData(fileData, first + j - 1))>>]
             sent == [m EXCEPT !.sendingChunkIndex = first + chunksToSend]
         IN  IF sent.sendingChunkIndex >= metadata.totalChunks
             THEN Result(sent, chunks \o sendCompleteMessage(sent), {}, {})
             ELSE Result([sent EXCEPT !.scheduled = @ + 1], chunks, {}, {})

\* resumeSending()
resumeSending(m, pause) ==
    IF ~m.sendingPaused THEN Result(m, <<>>, {}, {})
    ELSE sendNextChunks([m EXCEPT !.sendingPaused = FALSE], pause)

\* updateSendProgress(): the TransferProgress it reports
updateSendProgress(m) ==
    LET metadata == m.sendingMetadata[1]
    IN  [transferId |-> metadata.transferId,
         bytesTransferred |-> Min(m.sendingChunkIndex * chunkSize,
                                  metadata.fileSize),
         totalBytes |-> metadata.fileSize]

\* updateReceiveProgress(): the TransferProgress it reports
updateReceiveProgress(m) ==
    LET metadata == m.receivingMetadata[1]
    IN  [transferId |-> metadata.transferId,
         bytesTransferred |-> m.receivingBytesReceived,
         totalBytes |-> metadata.fileSize]

\* handleFileMetadata, with sendAck
handleFileMetadata(m, frame) ==
    IF frame.metadata = None THEN Result(m, <<>>, {}, {})
    ELSE LET metadata == frame.metadata[1]
         IN  Result([m EXCEPT !.receivingTransferId = Some(metadata.transferId),
                              !.receivingMetadata = Some(metadata),
                              !.receivingChunks = EmptyMap,
                              !.receivingBytesReceived = 0],
                    << <<0, ControlFrame(transferAck, metadata.transferId)>> >>,
                    {Event("didStartReceiving", metadata.transferId, NoReason)},
                    {})

\* handleFileChunk: a frame of at most 5 bytes (no chunk data) is dropped
handleFileChunk(m, frame) ==
    IF Len(frame.data) = 0 THEN Result(m, <<>>, {}, {})
    ELSE Result([m EXCEPT !.receivingChunks = MapSet(@, frame.index, frame.data),
                          !.receivingBytesReceived = @ + Len(frame.data)],
                <<>>, {}, {})

\* fileData after the reassembly loop over 0..<count
RECURSIVE Reassemble(_, _)
Reassemble(chunks, count) ==
    IF count = 0 THEN <<>>
    ELSE Reassemble(chunks, count - 1) \o chunks[count - 1]

MissingChunks(m) ==
    {i \in 0..(m.receivingMetadata[1].totalChunks - 1) :
        i \notin DOMAIN m.receivingChunks}

\* the index the reassembly loop stops at: the first i with no chunk
FirstMissingWrong(m) == CHOOSE i \in MissingChunks(m) :
                            \A j \in MissingChunks(m) : j <= i

FirstMissing(m) == CHOOSE i \in MissingChunks(m) :
                       \A j \in MissingChunks(m) : i <= j

\* the checksum test of handleFileComplete
ChecksumRejectedIfEmpty(expectedChecksum, actualChecksum) ==
    expectedChecksum = <<>> /\ actualChecksum # expectedChecksum

ChecksumRejected(expectedChecksum, actualChecksum) ==
    expectedChecksum # <<>> /\ actualChecksum # expectedChecksum

\* handleFileComplete; writeOk is whether fileData.write(to:) succeeds
handleFileComplete(m, frame, writeOk) ==
    IF m.receivingMetadata = None THEN Result(m, <<>>, {}, {})
    ELSE LET metadata == m.receivingMetadata[1]
             expectedChecksum == frame.checksum
         IN  IF MissingChunks(m) # {}
             THEN LET reason == <<"Missing chunk", FirstMissing(m)>>
                  IN  Result(cleanup(m), << <<0, FailedFrame(reason)>> >>,
                             {Event("didFailTransfer", metadata.transferId,
                                    reason)}, {})
             ELSE LET fileData == Reassemble(m.receivingChunks,
                                             metadata.totalChunks)
                      actualChecksum == SHA256(fileData)
                  IN  IF ChecksumRejected(expectedChecksum, actualChecksum)
                      THEN Result(cleanup(m),
                                  << <<0, FailedFrame(<<"Checksum mismatch", 0>>)>> >>,
                                  {Event("didFailTransfer", metadata.transferId,
                                         <<"Checksum mismatch", 0>>)}, {})
                      ELSE IF writeOk
                      THEN Result(cleanup(m),
                                  << <<0, ControlFrame(transferSuccess,
                                                       metadata.transferId)>> >>,
                                  {Event("didCompleteTransfer",
                                         metadata.transferId, NoReason)},
                                  {fileData})
                      ELSE Result(cleanup(m),
                                  << <<0, FailedFrame(<<"write error", 0>>)>> >>,
                                  {Event("didFailTransfer", metadata.transferId,
                                         <<"write error", 0>>)}, {})

\* handleTransferAck
handleTransferAck(m, pause) == sendNextChunks(m, pause)

\* handleTransferSuccess: the completed state goes out as a progress update
handleTransferSuccess(m) ==
    IF m.sendingTransferId = None THEN Result(m, <<>>, {}, {})
    ELSE Result(cleanup(m), <<>>,
                {Event("didUpdateProgress.completed", m.sendingTransferId[1],
                       NoReason)}, {})

\* handleTransferFailed
handleTransferFailed(m, frame) ==
    IF m.sendingTransferId = None THEN Result(m, <<>>, {}, {})
    ELSE Result(cleanup(m), <<>>,
                {Event("didFailTransfer", m.sendingTransferId[1],
                       IF frame.reason = NoReason
                       THEN <<"Transfer failed", 0>> ELSE frame.reason)}, {})

\* sendingTransferId ?? receivingTransferId, 0 when both are nil
CurrentTransferId(m) ==
    IF m.sendingTransferId # None THEN m.sendingTransferId[1]
    ELSE IF m.receivingTransferId # None THEN m.receivingTransferId[1]
    ELSE 0

\* handleTransferCancel
handleTransferCancel(m) ==
    Result(cleanup(m), <<>>,
           {Event("didCancelTransfer", CurrentTransferId(m), NoReason)}, {})

\* cancelTransfer(), with sendCancelMessage
cancelTransfer(m) ==
    IF m.sendingTransferId = None /\ m.receivingTransferId = None
    THEN Result(m, <<>>, {}, {})
    ELSE Result(cleanup(m),
                << <<0, ControlFrame(transferCancel, CurrentTransferId(m))>> >>,
                {Event("didCancelTransfer", CurrentTransferId(m), NoReason)},
                {})

\* handleIncomingData: dispatch on the type byte
handleIncomingData(m, frame, pause, writeOk) ==
    CASE frame.type = fileMetadata -> handleFileMetadata(m, frame)
      [] frame.type = fileChunk -> handleFileChunk(m, frame)
      [] frame.type = fileComplete -> handleFileComplete(m, frame, writeOk)
      [] frame.type = transferAck -> handleTransferAck(m, pause)
      [] frame.type = transferSuccess -> handleTransferSuccess(m)
      [] frame.type = transferFailed -> handleTransferFailed(m, frame)
      [] frame.type = transferCancel -> handleTransferCancel(m)
      [] OTHER -> Result(m, <<>>, {}, {})

(***************************************************************************)
(* Transfer steps                                                          *)
(***************************************************************************)
\* sendData(_:onChannel:) returns false, and sends nothing, when the
\* channel is missing or not open: the frames of out the transport took
Accepted(e, out) ==
    SelectSeq(out, LAMBDA p : <<e, p[1]>> \notin env.notOpen)

\* endpoint e ran a method with result res; chanIn is chan without the
\* frame the method consumed
Apply(e, res, chanIn, op) ==
    /\ mgr' = [mgr EXCEPT ![e] = res.m]
    /\ chan' = [chanIn EXCEPT ![e] = Enqueue(@, Accepted(e, res.out))]
    /\ unsent' = [unsent EXCEPT ![e] =
                    [c \in Channels |->
                        @[c] + CountSent(Accepted(e, res.out), c)]]
    /\ sentCount' = [sentCount EXCEPT ![e] =
                    [t \in MessageTypes |-> @[t] + CountType(res.out, t)]]
    /\ delegate' = [delegate EXCEPT ![e] = @ \cup res.events]
    /\ written' = [written EXCEPT ![e] = @ \cup res.files]
    /\ xferOut' = res.out
    /\ xferOp' = [op EXCEPT !.events = res.events, !.files = res.files]

\* startFileTransfer: the initiator's manager sends a file of count bytes
SendFile(transferId, count) ==
    /\ UNCHANGED <<hubVars, codeVars, friendVars, clientVars>>
    /\ ~env.started
    /\ env' = [env EXCEPT !.started = TRUE, !.fileSize = count,
                          !.connected = 1]
    /\ Apply("initiator", sendFile(mgr["initiator"], transferId, count), chan,
             XferOp("sendFile", "initiator", None, mgr["initiator"]))

\* dataChannel(_:didReceiveMessageWith:) up to handleIncomingData: endpoint e
\* gets the oldest frame its peer has transmitted on channel c
Deliver(e, c) ==
    LET q == chan[Peer(e)][c]
    IN  /\ UNCHANGED <<hubVars, codeVars, friendVars, clientVars>>
        /\ Len(q) > unsent[Peer(e)][c]
        /\ \E writeOk \in BOOLEAN :
              LET frame == Head(q)
                  writes == /\ frame.type = fileComplete
                            /\ mgr[e].receivingMetadata # None
                            /\ MissingChunks(mgr[e]) = {}
                            /\ ~ChecksumRejected(frame.checksum,
                                  SHA256(Reassemble(mgr[e].receivingChunks,
                                     mgr[e].receivingMetadata[1].totalChunks)))
              IN  /\ writes \/ writeOk
                  /\ env' = [env EXCEPT
                               !.writeFailed = @ \/ ~writeOk,
                               !.acked = IF frame.type = transferAck
                                         THEN @ \cup {e} ELSE @,
                               !.cancelledAt = IF frame.type = transferCancel
                                               THEN @ \cup {e} ELSE @]
                  /\ Apply(e,
                           handleIncomingData(mgr[e], frame,
                                              shouldPauseSending(e), writeOk),
                           [chan EXCEPT ![Peer(e)][c] = Tail(q)],
                           XferOp("deliver", e, Some(frame), mgr[e]))

\* the block sendNextChunks scheduled with asyncAfter runs
Pump(e) ==
    /\ UNCHANGED <<hubVars, codeVars, friendVars, clientVars>>
    /\ mgr[e].scheduled > 0
    /\ Apply(e, sendNextChunks([mgr[e] EXCEPT !.scheduled = @ - 1],
                               shouldPauseSending(e)),
             chan, XferOp("pump", e, None, mgr[e]))
    /\ UNCHANGED env

\* the transport transmits the oldest buffered frame of channel c; the
\* callback dataChannel(_:didChangeBufferedAmount:) has an empty body
Drain(e, c) ==
    /\ UNCHANGED <<hubVars, codeVars, friendVars, clientVars>>
    /\ unsent[e][c] > 0
    /\ unsent' = [unsent EXCEPT ![e][c] = @ - 1]
    /\ xferOp' = XferOp("drain", e, None, mgr[e])
    /\ xferOut' = <<>>
    /\ UNCHANGED <<mgr, chan, sentCount, delegate, written, env>>

\* the user cancels on endpoint e while a transfer is active there
CancelTransfer(e) ==
    /\ UNCHANGED <<hubVars, codeVars, friendVars, clientVars>>
    /\ ~env.cancelled
    /\ CurrentTransferId(mgr[e]) # 0
    /\ env' = [env EXCEPT !.cancelled = TRUE, !.cancelledAt = @ \cup {e}]
    /\ Apply(e, cancelTransfer(mgr[e]), chan,
             XferOp("cancelTransfer", e, None, mgr[e]))

\* the k-th frame in flight from the initiator on channel c is a chunk and
\* its data is zeroed out (same length)
TamperChunk(c, k) ==
    LET q == chan["initiator"][c]
    IN  /\ UNCHANGED <<hubVars, codeVars, friendVars, clientVars>>
        /\ env.tampered < MaxTamper
        /\ k \in DOMAIN q
        /\ q[k].type = fileChunk
        /\ q[k].data # [i \in DOMAIN q[k].data |-> 0]
        /\ chan' = [chan EXCEPT !["initiator"][c][k].data =
                      [i \in DOMAIN @ |-> 0]]
        /\ env' = [env EXCEPT !.tampered = @ + 1, !.tamperedChunk = TRUE]
        /\ xferOp' = XferOp("tamperChunk", "initiator", None, mgr["initiator"])
        /\ xferOut' = <<>>
        /\ UNCHANGED <<mgr, unsent, sentCount, delegate, written>>

\* the FILE_COMPLETE frame in flight from the initiator arrives with an
\* empty checksum payload
TamperComplete(k) ==
    LET q == chan["initiator"][0]
    IN  /\ UNCHANGED <<hubVars, codeVars, friendVars, clientVars>>
        /\ env.tampered < MaxTamper
        /\ k \in DOMAIN q
        /\ q[k].type = fileComplete
        /\ q[k].checksum # <<>>
        /\ chan' = [chan EXCEPT !["initiator"][0][k].checksum = <<>>]
        /\ env' = [env EXCEPT !.tampered = @ + 1, !.tamperedComplete = TRUE]
        /\ xferOp' = XferOp("tamperComplete", "initiator", None,
                            mgr["initiator"])
        /\ xferOut' = <<>>
        /\ UNCHANGED <<mgr, unsent, sentCount, delegate, written>>

\* the FILE_METADATA frame in flight from the initiator arrives with a JSON
\* payload that JSONDecoder cannot decode
TamperMetadata(k) ==
    LET q == chan["initiator"][0]
    IN  /\ UNCHANGED <<hubVars, codeVars, friendVars, clientVars>>
        /\ env.tampered < MaxTamper
        /\ k \in DOMAIN q
        /\ q[k].type = fileMetadata
        /\ q[k].metadata # None
        /\ chan' = [chan EXCEPT !["initiator"][0][k].metadata = None]
        /\ env' = [env EXCEPT !.tampered = @ + 1]
        /\ xferOp' = XferOp("tamperMetadata", "initiator", None,
                            mgr["initiator"])
        /\ xferOut' = <<>>
        /\ UNCHANGED <<mgr, unsent, sentCount, delegate, written>>

\* the peer transmits one more FILE_CHUNK frame on channel c, of the given
\* index (one already sent, or one beyond the file's chunks) and with
\* other bytes than the file's
InjectedData == [i \in 1..chunkSize |-> 0]

InjectChunk(c, index) ==
    /\ UNCHANGED <<hubVars, codeVars, friendVars, clientVars>>
    /\ env.started
    /\ env.injected < MaxInject
    /\ chan' = [chan EXCEPT !["initiator"][c] =
                  Append(@, ChunkFrame(index, InjectedData))]
    /\ unsent' = [unsent EXCEPT !["initiator"][c] = @ + 1]
    /\ env' = [env EXCEPT !.injected = @ + 1]
    /\ xferOp' = XferOp("injectChunk", "initiator", None, mgr["initiator"])
    /\ xferOut' = <<>>
    /\ UNCHANGED <<mgr, sentCount, delegate, written>>

\* the WebRTC service reports .connected once more (ICE completed after
\* ICE connected) while the initiator's session is active: didChangeState
\* calls startFileTransfer again, which replaces the session's manager by
\* a new one and calls sendFile on it.  The blocks the old manager
\* scheduled hold it weakly and do nothing.
ConnectedAgain(transferId) ==
    /\ UNCHANGED <<hubVars, codeVars, friendVars, clientVars>>
    /\ env.started
    /\ env.connected < MaxConnected
    /\ delegate["initiator"] = {}
    /\ mgr["initiator"].sendingTransferId = Some(transferId)
    /\ env' = [env EXCEPT !.connected = @ + 1]
    /\ Apply("initiator", sendFile(IdleManager, transferId, env.fileSize),
             chan, XferOp("connectedAgain", "initiator", None,
                          mgr["initiator"]))

\* data channel c of the initiator is closed, or has not opened
ChannelNotOpen(c) ==
    /\ UNCHANGED <<hubVars, codeVars, friendVars, clientVars>>
    /\ Cardinality(env.notOpen) < MaxNotOpen
    /\ env' = [env EXCEPT !.notOpen = @ \cup {<<"initiator", c>>}]
    /\ xferOp' = XferOp("channelNotOpen", "initiator", None, mgr["initiator"])
    /\ xferOut' = <<>>
    /\ UNCHANGED <<mgr, chan, unsent, sentCount, delegate, written>>

\* the signaling messages the delegate method called for event sends:
\* didCompleteTransfer sends rtcSessionClose; didFailTransfer,
\* didCancelTransfer and didUpdateProgress send nothing
delegateSignals(event) ==
    IF event.kind = "didCompleteTransfer"
    THEN {[type |-> "rtc_session_close", sessionId |-> event.transferId]}
    ELSE {}

\* handleSessionClose at the initiator: the hub hands over the
\* rtc_session_close the responder sent in didCompleteTransfer, and
\* closeSession closes the WebRTC service and removes the session.  The
\* data channels are closed with whatever the peer transmitted and the
\* manager has not yet received; the blocks the removed manager scheduled
\* hold it weakly and do nothing.
HandleSessionClose ==
    /\ UNCHANGED <<hubVars, codeVars, friendVars, clientVars>>
    /\ \E ev \in delegate["responder"] :
          "rtc_session_close" \in {msg.type : msg \in delegateSignals(ev)}
    /\ "initiator" \notin env.closed
    /\ env' = [env EXCEPT !.closed = @ \cup {"initiator"}]
    /\ chan' = [e \in Endpoints |-> [c \in Channels |-> <<>>]]
    /\ unsent' = [e \in Endpoints |-> [c \in Channels |-> 0]]
    /\ mgr' = [mgr EXCEPT !["initiator"].scheduled = 0]
    /\ xferOp' = XferOp("handleSessionClose", "initiator", None,
                        mgr["initiator"])
    /\ xferOut' = <<>>
    /\ UNCHANGED <<sentCount, delegate, written>>

XferNext ==
    \/ \E transferId \in TransferIds, count \in 0..MaxFileSize :
          SendFile(transferId, count)
    \/ \E e \in Endpoints, c \in Channels : Deliver(e, c)
    \/ \E e \in Endpoints : Pump(e)
    \/ \E e \in Endpoints, c \in Channels : Drain(e, c)
    \/ \E e \in Endpoints : CancelTransfer(e)
    \/ \E c \in Channels, k \in 1..(MaxFileSize + 2) : TamperChunk(c, k)
    \/ \E k \in 1..(MaxFileSize + 2) : TamperComplete(k)
    \/ \E k \in 1..(MaxFileSize + 2) : TamperMetadata(k)

(***************************************************************************)
(* BlipService: incoming session requests                                  *)
(***************************************************************************)
MaxIncoming == 3

IncomingIds == 1..MaxIncoming

ClientInit ==
    /\ pendingIncomingSession = None
    /\ activeSessions = {}
    /\ rtcReceived = {}
    /\ rtcSent = <<>>

\* handleSessionRequest: the hub hands over an rtc_session_request with its
\* sessionId, senderId and senderName; the session is stored as pending
handleSessionRequest(sessionId, senderId) ==
    /\ UNCHANGED <<hubVars, xferVars, codeVars, friendVars>>
    /\ sessionId \notin {msg.sessionId : msg \in rtcReceived}
    /\ rtcReceived' = rtcReceived \cup
          {[type |-> "rtc_session_request", sessionId |-> sessionId,
            senderId |-> senderId]}
    /\ pendingIncomingSession' =
          Some([sessionId |-> sessionId, peerId |-> senderId])
    /\ UNCHANGED <<activeSessions, rtcSent>>

\* acceptIncomingSession: the user accepts the pending session
acceptIncomingSession ==
    /\ UNCHANGED <<hubVars, xferVars, codeVars, friendVars>>
    /\ pendingIncomingSession # None
    /\ LET session == pendingIncomingSession[1]
       IN  /\ activeSessions' = activeSessions \cup {session}
           /\ rtcSent' = Append(rtcSent,
                 [type |-> "rtc_session_accept", peerId |-> session.peerId,
                  sessionId |-> session.sessionId])
    /\ pendingIncomingSession' = None
    /\ UNCHANGED rtcReceived

\* rejectIncomingSession: the user declines the pending session
rejectIncomingSession ==
    /\ UNCHANGED <<hubVars, xferVars, codeVars, friendVars>>
    /\ pendingIncomingSession # None
    /\ LET session == pendingIncomingSession[1]
       IN  rtcSent' = Append(rtcSent,
              [type |-> "rtc_session_reject", peerId |-> session.peerId,
               sessionId |-> session.sessionId])
    /\ pendingIncomingSession' = None
    /\ UNCHANGED <<activeSessions, rtcReceived>>

ClientNext ==
    \/ \E sessionId \in IncomingIds, senderId \in Users :
          handleSessionRequest(sessionId, senderId)
    \/ acceptIncomingSession
    \/ rejectIncomingSession

Init == HubInit /\ XferInit /\ CodeInit /\ FriendInit /\ ClientInit

\* the hub starts over a database in which every user has a connect code
FriendSpecInit ==
    /\ HubInit /\ XferInit /\ FriendInit /\ ClientInit
    /\ codeTable = StoredCodes
    /\ codeReq = [r \in Requests |-> NoRequest]
    /\ codeReplies = {}

XferSpec == Init /\ [][XferNext]_vars

\* the main queue runs scheduled blocks, the transport transmits and
\* delivers what it was handed
XferProgress ==
    \/ \E e \in Endpoints, c \in Channels : Deliver(e, c)
    \/ \E e \in Endpoints : Pump(e)
    \/ \E e \in Endpoints, c \in Channels : Drain(e, c)

\* a transfer nobody cancels over a transport that alters nothing
XferCleanNext ==
    \/ \E transferId \in TransferIds, count \in 0..MaxFileSize :
          SendFile(transferId, count)
    \/ XferProgress

\* an undisturbed sender and a peer stack that repeats or invents chunks
RecvNext ==
    \/ XferCleanNext
    \/ \E c \in Channels, index \in 0..MaxFileSize : InjectChunk(c, index)

RecvSpec == Init /\ [][RecvNext]_vars

\* an undisturbed transfer whose transport reports .connected twice
StartNext ==
    \/ XferCleanNext
    \/ \E transferId \in TransferIds : ConnectedAgain(transferId)

StartSpec == Init /\ [][StartNext]_vars

\* an undisturbed transfer over a transport one of whose channels is not
\* open
SendFailNext ==
    \/ XferCleanNext
    \/ \E c \in Channels : ChannelNotOpen(c)

SendFailSpec == Init /\ [][SendFailNext]_vars

\* an undisturbed transfer whose sender is handed the receiver's
\* rtc_session_close by the hub
CloseNext ==
    \/ XferCleanNext
    \/ HandleSessionClose

CloseSpec == Init /\ [][CloseNext]_vars /\ WF_vars(XferProgress)

ClientSpec == Init /\ [][ClientNext]_vars

XferFairSpec == Init /\ [][XferCleanNext]_vars /\ WF_vars(XferProgress)

HubSpec == Init /\ [][HubNext]_vars

CodeSpec == Init /\ [][CodeNext]_vars

FriendSpec == FriendSpecInit /\ [][FriendNext]_vars

RelaySpec == Init /\ [][RelayNext]_vars

(***************************************************************************)
(* Transfer claims                                                         *)
(***************************************************************************)
\* the last step delivered a frame of the given type to endpoint e
Delivered(e, type) ==
    /\ xferOp.type = "deliver"
    /\ xferOp.e = e
    /\ xferOp.frame[1].type = type

\* nothing in flight, nothing buffered, no pump scheduled
Quiescent ==
    /\ \A e \in Endpoints, c \in Channels : chan[e][c] = <<>>
    /\ \A e \in Endpoints : mgr[e].scheduled = 0

ChunksInFlight(c) ==
    {k \in DOMAIN chan["initiator"][c] :
        chan["initiator"][c][k].type = fileChunk}

\* C6: with no alteration of frames, no cancel and no write error, the
\* responder never sends TRANSFER_FAILED and sends at most one TRANSFER_ACK
\* and one TRANSFER_SUCCESS; when the transfer of a file of at least one
\* chunk has come to rest it has sent exactly one of each; and FILE_COMPLETE
\* is never handled while chunks are in flight on channels 1..N-1.
C6_CleanTransferSucceeds ==
    (env.tampered = 0 /\ ~env.cancelled /\ ~env.writeFailed) =>
        /\ sentCount["responder"][transferFailed] = 0
        /\ sentCount["responder"][transferAck] <= 1
        /\ sentCount["responder"][transferSuccess] <= 1
        /\ (env.started /\ env.fileSize >= 1 /\ Quiescent) =>
              /\ sentCount["responder"][transferAck] = 1
              /\ sentCount["responder"][transferSuccess] = 1
        /\ Delivered("responder", fileComplete) =>
              \A c \in 1..(parallelChannels - 1) : ChunksInFlight(c) = {}

\* C7: a FILE_COMPLETE makes the receiver send TRANSFER_SUCCESS and report
\* completion only if the SHA-256 of the reassembled bytes equals the
\* checksum of the FILE_METADATA and their length equals its fileSize.
C7_SuccessOnlyIfDigestMatches ==
    \A e \in Endpoints :
        (/\ Delivered(e, fileComplete)
         /\ \/ \E i \in DOMAIN xferOut : xferOut[i][2].type = transferSuccess
            \/ \E ev \in xferOp.events : ev.kind = "didCompleteTransfer")
        => LET metadata == xferOp.pre.receivingMetadata[1]
               fileData == Reassemble(xferOp.pre.receivingChunks,
                                      metadata.totalChunks)
           IN  /\ SHA256(fileData) = metadata.checksum
               /\ Len(fileData) = metadata.fileSize

\* C8: when every index is present at FILE_COMPLETE, the frame carries the
\* sender's checksum and the reassembled bytes differ from the source (a
\* chunk was altered in flight), the receiver sends exactly
\* TRANSFER_FAILED "Checksum mismatch", reports no completion and writes
\* nothing; the sender that handles that frame reports
\* failed("Checksum mismatch") and is back in its cleaned-up state.
C8_AlteredChunkFails ==
    /\ \A e \in Endpoints :
          (/\ Delivered(e, fileComplete)
           /\ xferOp.pre.receivingMetadata # None
           /\ MissingChunks(xferOp.pre) = {}
           /\ xferOp.frame[1].checksum =
                 xferOp.pre.receivingMetadata[1].checksum
           /\ Reassemble(xferOp.pre.receivingChunks,
                         xferOp.pre.receivingMetadata[1].totalChunks)
                 # SourceFile(xferOp.pre.receivingMetadata[1].fileSize))
          => /\ xferOut = << <<0, FailedFrame(<<"Checksum mismatch", 0>>)>> >>
             /\ xferOp.files = {}
             /\ \A ev \in xferOp.events : ev.kind = "didFailTransfer"
    /\ \A e \in Endpoints :
          (/\ Delivered(e, transferFailed)
           /\ xferOp.frame[1].reason = <<"Checksum mismatch", 0>>
           /\ xferOp.pre.sendingTransferId # None)
          => /\ xferOp.events =
                   {Event("didFailTransfer", xferOp.pre.sendingTransferId[1],
                          <<"Checksum mismatch", 0>>)}
             /\ mgr[e].sendingTransferId = None
             /\ mgr[e].sendingFileData = None
             /\ mgr[e].sendingMetadata = None
             /\ mgr[e].sendingChunkIndex = 0
             /\ ~mgr[e].sendingPaused

\* C8 witness: the initiator, still sending, handled the TRANSFER_FAILED
\* "Checksum mismatch" that the responder sent for a zeroed chunk.
C8_Witness ==
    /\ env.tamperedChunk
    /\ ~env.tamperedComplete
    /\ Delivered("initiator", transferFailed)
    /\ xferOp.frame[1].reason = <<"Checksum mismatch", 0>>
    /\ xferOp.pre.sendingTransferId # None
    /\ sentCount["responder"][transferSuccess] = 0

\* C9: a FILE_COMPLETE handled while an index of 0..N-1 is absent from
\* receivingChunks makes the receiver send exactly TRANSFER_FAILED
\* "Missing chunk k" for the smallest absent k, write no file, report no
\* completion, and reset its receiving state.
C9_MissingChunkFails ==
    \A e \in Endpoints :
        (/\ Delivered(e, fileComplete)
         /\ xferOp.pre.receivingMetadata # None
         /\ MissingChunks(xferOp.pre) # {})
        => /\ Len(xferOut) = 1
           /\ xferOut[1][1] = 0
           /\ xferOut[1][2].type = transferFailed
           /\ xferOut[1][2].reason[1] = "Missing chunk"
           /\ xferOut[1][2].reason[2] \in MissingChunks(xferOp.pre)
           /\ \A j \in MissingChunks(xferOp.pre) : xferOut[1][2].reason[2] <= j
           /\ xferOp.files = {}
           /\ \A ev \in xferOp.events : ev.kind = "didFailTransfer"
           /\ mgr[e].receivingTransferId = None
           /\ mgr[e].receivingMetadata = None
           /\ mgr[e].receivingChunks = EmptyMap
           /\ mgr[e].receivingBytesReceived = 0

\* C9 witness: FILE_COMPLETE was handled with two indices absent.
C9_Witness ==
    /\ Delivered("responder", fileComplete)
    /\ xferOp.pre.receivingMetadata # None
    /\ Cardinality(MissingChunks(xferOp.pre)) >= 2
    /\ sentCount["responder"][transferFailed] = 1

\* C10: a sender that is paused while the aggregate buffered amount is
\* below the low watermark eventually leaves the paused state.
C10_PausedEventuallyResumes ==
    (mgr["initiator"].sendingPaused /\ canResumeSending("initiator"))
        ~> ~mgr["initiator"].sendingPaused

\* C11: a step of an endpoint whose sender is paused dispatches no
\* FILE_CHUNK; and an invocation of sendNextChunks (scheduled, or on
\* TRANSFER_ACK) of an unpaused sender with a file to send that finds the
\* aggregate buffered amount above the high watermark dispatches no
\* FILE_CHUNK and leaves the sender paused.
C11_PausedSendsNoChunk ==
    [][\A e \in Endpoints :
          /\ mgr[e].sendingPaused =>
                sentCount'[e][fileChunk] = sentCount[e][fileChunk]
          /\ (/\ xferOp'.e = e
              /\ \/ xferOp'.type = "pump"
                 \/ /\ xferOp'.type = "deliver"
                    /\ xferOp'.frame[1].type = transferAck
              /\ mgr[e].sendingFileData # None
              /\ mgr[e].sendingMetadata # None
              /\ totalBufferedAmount(e) > bufferHighWatermark)
             => /\ sentCount'[e][fileChunk] = sentCount[e][fileChunk]
                /\ mgr'[e].sendingPaused]_vars

\* C11 witness: a scheduled sendNextChunks found the buffer above the high
\* watermark: it sent nothing and the sender, unpaused before, is paused
\* with chunks still to send.
C11_Witness ==
    /\ xferOp.type = "pump"
    /\ ~xferOp.pre.sendingPaused
    /\ mgr[xferOp.e].sendingPaused
    /\ xferOut = <<>>
    /\ mgr[xferOp.e].sendingChunkIndex
          < mgr[xferOp.e].sendingMetadata[1].totalChunks

\* C12: an endpoint that has dispatched a FILE_CHUNK has handled a
\* TRANSFER_ACK before; and a TRANSFER_ACK is sent only by the step that
\* handles a FILE_METADATA frame whose metadata decodes.
C12_NoChunkBeforeAck ==
    /\ \A e \in Endpoints :
          sentCount[e][fileChunk] > 0 => e \in env.acked
    /\ \A i \in DOMAIN xferOut :
          xferOut[i][2].type = transferAck =>
              /\ xferOp.type = "deliver"
              /\ xferOp.frame[1].type = fileMetadata
              /\ xferOp.frame[1].metadata # None
              /\ xferOut[i][2].transferId =
                    xferOp.frame[1].metadata[1].transferId

\* C12 witness: the initiator handled the TRANSFER_ACK and this very step
\* dispatched its first chunks.
C12_Witness ==
    /\ Delivered("initiator", transferAck)
    /\ "initiator" \in env.acked
    /\ \E i \in DOMAIN xferOut : xferOut[i][2].type = fileChunk
    /\ sentCount["responder"][transferAck] = 1

\* C13: cancelTransfer() on an endpoint with a transfer sends exactly one
\* TRANSFER_CANCEL with that transfer's id on channel 0, leaves every
\* sending and receiving property cleared and reports didCancelTransfer;
\* and an endpoint that has cancelled, or has handled a TRANSFER_CANCEL,
\* dispatches no FILE_CHUNK and no FILE_COMPLETE in any later step.
C13_CancelIsTerminal ==
    [][\A e \in Endpoints :
          /\ (/\ xferOp'.type = "cancelTransfer"
              /\ xferOp'.e = e
              /\ CurrentTransferId(mgr[e]) # 0)
             => /\ xferOut' = << <<0, ControlFrame(transferCancel,
                                         CurrentTransferId(mgr[e]))>> >>
                /\ xferOp'.events = {Event("didCancelTransfer",
                                           CurrentTransferId(mgr[e]),
                                           NoReason)}
                /\ mgr'[e].sendingTransferId = None
                /\ mgr'[e].sendingFileData = None
                /\ mgr'[e].sendingMetadata = None
                /\ mgr'[e].sendingChunkIndex = 0
                /\ ~mgr'[e].sendingPaused
                /\ mgr'[e].receivingTransferId = None
                /\ mgr'[e].receivingMetadata = None
                /\ mgr'[e].receivingChunks = EmptyMap
                /\ mgr'[e].receivingBytesReceived = 0
          /\ e \in env.cancelledAt =>
                /\ sentCount'[e][fileChunk] = sentCount[e][fileChunk]
                /\ sentCount'[e][fileComplete] = sentCount[e][fileComplete]]_vars

\* C13 witness: the block that sendNextChunks had scheduled ran on the
\* initiator after the cancel with chunks left unsent, and sent nothing.
C13_Witness ==
    /\ xferOp.type = "pump"
    /\ xferOp.e \in env.cancelledAt
    /\ xferOp.pre.scheduled > 0
    /\ xferOp.pre.sendingFileData = None
    /\ sentCount[xferOp.e][fileChunk] > 0
    /\ sentCount[xferOp.e][fileChunk] < env.fileSize
    /\ xferOut = <<>>

(***************************************************************************)
(* BlipService as the manager's delegate: what it sends to the hub         *)
(***************************************************************************)
\* BlipService.cancelTransfer(_:), the user's cancel, sends rtcSessionClose
cancelSignals ==
    IF env.cancelled
    THEN {[type |-> "rtc_session_close", sessionId |-> t] : t \in TransferIds}
    ELSE {}

\* every signaling message the two endpoints have sent since the transfer
\* started
signalsSent ==
    cancelSignals
    \cup UNION {delegateSignals(ev) : ev \in UNION {delegate[e] : e \in Endpoints}}

\* C27: once a transfer has ended with TRANSFER_FAILED and has come to rest
\* (the sender has handled the frame, nothing is in flight), an endpoint
\* has sent rtc_session_close for that session to the hub.
C27_FailedTransferClosesSession ==
    (/\ sentCount["responder"][transferFailed] > 0
     /\ Quiescent)
    => \E msg \in signalsSent : msg.type = "rtc_session_close"

\* C28: a zero-byte file transfers successfully: totalChunks is 0, the
\* sender emits FILE_METADATA, then after the ACK FILE_COMPLETE, and no
\* FILE_CHUNK; the receiver emits TRANSFER_ACK and TRANSFER_SUCCESS and no
\* TRANSFER_FAILED.  A file whose size is a multiple of the chunk size is
\* sent as exactly size / chunkSize chunks, none of them empty.
C28_ZeroByteAndExactMultiple ==
    /\ (env.started /\ env.fileSize = 0) =>
          /\ mgr["initiator"].sendingMetadata # None =>
                mgr["initiator"].sendingMetadata[1].totalChunks = 0
          /\ sentCount["initiator"][fileChunk] = 0
          /\ sentCount["initiator"][fileMetadata] = 1
          /\ sentCount["initiator"][fileComplete] <= 1
          /\ sentCount["initiator"][fileComplete] = 1 =>
                "initiator" \in env.acked
          /\ (env.tampered = 0 /\ ~env.cancelled /\ ~env.writeFailed) =>
                /\ sentCount["responder"][transferFailed] = 0
                /\ Quiescent =>
                      /\ sentCount["initiator"][fileComplete] = 1
                      /\ sentCount["responder"][transferAck] = 1
                      /\ sentCount["responder"][transferSuccess] = 1
                      /\ \E ev \in delegate["responder"] :
                            ev.kind = "didCompleteTransfer"
                      /\ \E ev \in delegate["initiator"] :
                            ev.kind = "didUpdateProgress.completed"
    /\ (env.started /\ env.fileSize % chunkSize = 0) =>
          /\ mgr["initiator"].sendingMetadata # None =>
                mgr["initiator"].sendingMetadata[1].totalChunks
                   = env.fileSize \div chunkSize
          /\ sentCount["initiator"][fileChunk] <= env.fileSize \div chunkSize
          /\ sentCount["initiator"][fileComplete] > 0 =>
                sentCount["initiator"][fileChunk] = env.fileSize \div chunkSize
          /\ \A i \in DOMAIN xferOut :
                xferOut[i][2].type = fileChunk => Len(xferOut[i][2].data) > 0

\* the sender of a zero-byte file has just handled TRANSFER_SUCCESS
C28_Witness ==
    /\ env.started
    /\ env.fileSize = 0
    /\ Delivered("initiator", transferSuccess)
    /\ sentCount["initiator"][fileChunk] = 0

\* a file of more than one full chunk has been sent completely
C28_ExactMultipleReached ==
    /\ env.fileSize % chunkSize = 0
    /\ env.fileSize \div chunkSize > 1
    /\ sentCount["initiator"][fileComplete] = 1

\* how many of the first i - 1 frames of out are FILE_CHUNK frames
ChunksBefore(out, i) ==
    Cardinality({j \in 1..(i - 1) : out[j][2].type = fileChunk})

\* C29: the sender hands FILE_CHUNK frames to the transport in ascending
\* index order 0, 1, ..., N-1, none skipped or repeated, chunk i carrying
\* the bytes [i * chunkSize, min((i + 1) * chunkSize, size)) of the file,
\* and hands over FILE_COMPLETE only after chunk N-1.
C29_ChunksInOrder ==
    [][\A i \in DOMAIN xferOut' :
         LET frame == xferOut'[i][2]
             before == sentCount["initiator"][fileChunk]
                       + ChunksBefore(xferOut', i)
             size == env'.fileSize
         IN  /\ frame.type = fileChunk =>
                   /\ xferOp'.e = "initiator"
                   /\ frame.index = before
                   /\ frame.index * chunkSize < size
                   /\ frame.data =
                         [k \in 1..(Min((frame.index + 1) * chunkSize, size)
                                    - frame.index * chunkSize)
                            |-> SourceFile(size)[frame.index * chunkSize + k]]
             /\ frame.type = fileComplete =>
                   before * chunkSize >= size]_vars

\* a later batch: a pump handed over the last chunk, of index N-1 beyond
\* the first batch, and FILE_COMPLETE after it
C29_Witness ==
    /\ xferOp.type = "pump"
    /\ Len(xferOut) >= 2
    /\ xferOut[Len(xferOut)][2].type = fileComplete
    /\ xferOut[Len(xferOut) - 1][2].type = fileChunk
    /\ xferOut[Len(xferOut) - 1][2].index >= parallelChannels

\* C30: every FILE_CHUNK frame of index i is sent on channel i mod N
\* (N = parallelChannels = 4); every FILE_METADATA, FILE_COMPLETE,
\* TRANSFER_ACK, TRANSFER_SUCCESS, TRANSFER_FAILED and TRANSFER_CANCEL frame
\* is sent on channel 0.
C30_ChannelAssignment ==
    \A i \in DOMAIN xferOut :
        LET channelId == xferOut[i][1]
            frame == xferOut[i][2]
        IN  /\ frame.type \in MessageTypes
            /\ frame.type = fileChunk =>
                  \E q \in 0..MaxFileSize :
                      /\ frame.index = q * parallelChannels + channelId
                      /\ channelId \in 0..(parallelChannels - 1)
            /\ frame.type # fileChunk => channelId = 0

\* a batch put chunks on every channel, and chunk N on channel 0 again
C30_Witness ==
    /\ \E i \in DOMAIN xferOut :
          /\ xferOut[i][2].type = fileChunk
          /\ xferOut[i][2].index = parallelChannels
          /\ xferOut[i][1] = 0
    /\ \A c \in Channels : sentCount["initiator"][fileChunk] > c

\* C31: when the receiver gets a FILE_CHUNK frame whose index it already
\* holds, the bytes stored for that index stay those of the first frame.
C31_FirstChunkWins ==
    [][\A e \in Endpoints :
         (/\ xferOp'.type = "deliver"
          /\ xferOp'.e = e
          /\ xferOp'.frame[1].type = fileChunk
          /\ xferOp'.frame[1].index \in DOMAIN mgr[e].receivingChunks)
         => mgr'[e].receivingChunks[xferOp'.frame[1].index]
               = mgr[e].receivingChunks[xferOp'.frame[1].index]]_vars

\* C32: within one transfer the bytesTransferred of consecutive progress
\* reports never decreases and never exceeds totalBytes: on the sender,
\* whenever sendNextChunks ran, and on the receiver, whenever a FILE_CHUNK
\* was handled (a repeated one or one of index >= N included).
C32_ProgressMonotone ==
    [][\A e \in Endpoints :
         /\ (/\ xferOp'.e = e
             /\ xferOp'.type \in {"deliver", "pump"}
             /\ mgr[e].sendingMetadata # None
             /\ mgr'[e].sendingMetadata # None) =>
               /\ updateSendProgress(mgr[e]).bytesTransferred
                     <= updateSendProgress(mgr'[e]).bytesTransferred
               /\ updateSendProgress(mgr'[e]).bytesTransferred
                     <= updateSendProgress(mgr'[e]).totalBytes
         /\ (/\ xferOp'.e = e
             /\ xferOp'.type = "deliver"
             /\ xferOp'.frame[1].type = fileChunk
             /\ mgr[e].receivingMetadata # None) =>
               /\ updateReceiveProgress(mgr[e]).bytesTransferred
                     <= updateReceiveProgress(mgr'[e]).bytesTransferred
               /\ updateReceiveProgress(mgr'[e]).bytesTransferred
                     <= updateReceiveProgress(mgr'[e]).totalBytes]_vars

\* C37: the initiator starts the transfer of a session once, also when the
\* transport reports the connected state twice: one FILE_METADATA and one
\* FILE_COMPLETE are sent, and every chunk once.
C37_TransferStartedOnce ==
    env.started =>
        /\ sentCount["initiator"][fileMetadata] <= 1
        /\ sentCount["initiator"][fileComplete] <= 1
        /\ sentCount["initiator"][fileChunk] <= TotalChunks(env.fileSize)

\* C38: the transport takes FILE_COMPLETE from the sender only if it took
\* every chunk 0..N-1: while FILE_COMPLETE is in flight each chunk is in
\* flight too or held by the receiver.
C38_CompleteOnlyIfChunksAccepted ==
    (\E c \in Channels : \E i \in DOMAIN chan["initiator"][c] :
        chan["initiator"][c][i].type = fileComplete) =>
        \A k \in 0..(TotalChunks(env.fileSize) - 1) :
            \/ k \in DOMAIN mgr["responder"].receivingChunks
            \/ \E c \in Channels : \E j \in DOMAIN chan["initiator"][c] :
                  /\ chan["initiator"][c][j].type = fileChunk
                  /\ chan["initiator"][c][j].index = k


\* the sender has handled TRANSFER_SUCCESS: its delegate got the completed
\* progress update
SenderCompleted ==
    \E ev \in delegate["initiator"] : ev.kind = "didUpdateProgress.completed"

\* C39: once the receiver has emitted TRANSFER_SUCCESS the sender
\* eventually handles it and reports the transfer completed, and the
\* sender's session is never closed on the receiver's rtc_session_close
\* before that.
C39_SenderProcessesSuccess ==
    /\ (sentCount["responder"][transferSuccess] > 0) ~> SenderCompleted
    /\ []("initiator" \in env.closed => SenderCompleted)

\* the client has answered the request for sessionId
Answered(sessionId) ==
    \E i \in DOMAIN rtcSent :
        /\ rtcSent[i].sessionId = sessionId
        /\ rtcSent[i].type \in {"rtc_session_accept", "rtc_session_reject"}

\* C40: every rtc_session_request the client has received is answered with
\* rtc_session_accept or rtc_session_reject or still awaits the user's
\* decision: a later request does not discard it unanswered.
C40_EveryRequestAnswered ==
    \A msg \in rtcReceived :
        \/ Answered(msg.sessionId)
        \/ /\ pendingIncomingSession # None
           /\ pendingIncomingSession[1].sessionId = msg.sessionId

====
